---- MODULE Spec2Model ----
(***************************************************************************)
(* Model of the Taskwarrior MCP server tools (apps/mcp-server/src/tools)  *)
(* and of utils/filters.py over an abstract task store.                    *)
(*                                                                         *)
(* The store is the external Taskwarrior database reached through tasklib. *)
(* It is a sequence of task records in store iteration order.  A task has  *)
(* a numeric id only while it is pending (0 stands for "no id"), and that  *)
(* id does not change while the task stays pending; the uuid never changes.*)
(* Python None is NONE for strings, 0 for ids and for due instants.        *)
(***************************************************************************)
EXTENDS Integers, Sequences, FiniteSets, TLC

VARIABLES store, pre, call, ret, phase, cmds, writes, mem

vars == <<store, pre, call, ret, phase, cmds, writes, mem>>

NONE == "None"

\* Longest id list handed to a batch-by-ids tool.
MaxIds == 3

\* ------------------------------------------------------------------ values

\* Working-set number a task has while it is pending.
IdOf(u) == CASE u = "u1" -> 1 [] u = "u2" -> 2 [] u = "u3" -> 3 [] u = "u4" -> 4 [] OTHER -> 0

\* datetime.fromisoformat(s.replace('Z', '+00:00')): the instant a date string
\* denotes, or -1 where fromisoformat raises ValueError.
ParseIso(s) == CASE s = "D1" -> 1 [] s = "D2" -> 2 [] s = "D3" -> 3 [] OTHER -> -1

\* Python truthiness of an Optional[str].
Truthy(s) == s # NONE /\ s # ""

\* str.lower() on one character of the alphabet used in descriptions.
LowerChar(c) == CASE c = "A" -> "a" [] c = "B" -> "b" [] OTHER -> c

Lower(s) == [i \in 1..Len(s) |-> LowerChar(s[i])]

\* Python `needle in hay` on strings, given as character sequences.
Contains(hay, needle) ==
    \E k \in 0..(Len(hay) - Len(needle)) :
        \A i \in 1..Len(needle) : hay[k + i] = needle[i]

\* ------------------------------------------------------------------- store

MkTask(u, st, act, proj, prio, tg, desc, du) ==
    [uuid |-> u, id |-> IF st = "pending" THEN IdOf(u) ELSE 0, status |-> st,
     active |-> act, project |-> proj, priority |-> prio, tags |-> tg,
     description |-> desc, due |-> du]

\* tw.tasks.get(id=n): position of the task with that id, 0 for DoesNotExist.
GetById(st, n) ==
    IF \E i \in 1..Len(st) : st[i].id = n /\ n # 0
    THEN CHOOSE i \in 1..Len(st) : st[i].id = n
    ELSE 0

\* tw.tasks.get(uuid=u): position of the task with that uuid, 0 for DoesNotExist.
GetByUuid(st, u) ==
    IF \E i \in 1..Len(st) : st[i].uuid = u
    THEN CHOOSE i \in 1..Len(st) : st[i].uuid = u
    ELSE 0

\* A status written to the store; the id exists only under pending.
WithStatus(t, s) ==
    [t EXCEPT !.status = s, !.id = IF s = "pending" THEN IdOf(t.uuid) ELSE 0,
              !.active = IF s = "pending" THEN t.active ELSE FALSE]

\* task.done(): tasklib refuses a completed or deleted task.
DoneError(t) ==
    CASE t.status = "completed" -> "CompletedTask"
      [] t.status = "deleted" -> "DeletedTask"
      [] OTHER -> ""

\* task.delete(): tasklib refuses a deleted task.
DeleteError(t) == IF t.status = "deleted" THEN "DeletedTask" ELSE ""

\* task.start(): tasklib refuses a completed, deleted or already active task.
StartError(t) ==
    CASE t.status = "completed" -> "CompletedTask"
      [] t.status = "deleted" -> "DeletedTask"
      [] t.active -> "ActiveTask"
      [] OTHER -> ""

\* task.stop(): tasklib refuses a task that is not active.
StopError(t) == IF t.active THEN "" ELSE "InactiveTask"

\* The store's refusal of mutation m on task t ("" when it is accepted).
MutationError(m, t) ==
    CASE m = "done" -> DoneError(t)
      [] m = "delete" -> DeleteError(t)
      [] m = "start" -> StartError(t)
      [] m = "stop" -> StopError(t)
      [] OTHER -> ""

\* The task after an accepted mutation m.
Mutated(m, t) ==
    CASE m = "done" -> WithStatus(t, "completed")
      [] m = "delete" -> WithStatus(t, "deleted")
      [] m = "start" -> [t EXCEPT !.active = TRUE]
      [] m = "stop" -> [t EXCEPT !.active = FALSE]
      [] OTHER -> t

\* --------------------------------------------------------- calls and results

\* limit = None (Optional[int]); 0 is a limit a caller can set.
NoLimit == -1

NoFilter ==
    [status |-> NONE, project |-> NONE, tags |-> <<>>, priority |-> NONE,
     description_contains |-> <<>>, due_before |-> NONE, due_after |-> NONE,
     limit |-> NoLimit]

NoUpdate ==
    [description |-> <<>>, project |-> NONE, priority |-> NONE, has_tags |-> FALSE,
     tags |-> {}, add_tags |-> {}, remove_tags |-> {}, due |-> NONE]

NoCall ==
    [op |-> "none", task_id |-> 0, uuid |-> NONE, task_ids |-> <<>>,
     task_uuids |-> {}, filters |-> NoFilter, upd |-> NoUpdate, status |-> NONE,
     recent |-> 0, ext |-> "ok", ext2 |-> "ok", local |-> 0, now |-> 0]

\* What a call gave back: kind "structured" is a returned mapping with
\* 'success' and 'error'; "batch" is a returned mapping with 'success',
\* '*_count', 'results' and 'errors'; "tasks" is the list filter_tasks returns
\* (the uuids of its tasks); "raised" is an exception that left the function.
NoRet ==
    [kind |-> "none", success |-> FALSE, error |-> "", count |-> 0,
     results |-> <<>>, errors |-> <<>>, task |-> NONE, tasks |-> <<>>,
     purged_count |-> -1, found_deleted_count |-> -1, dict |-> <<>>,
     summary |-> <<>>]

Ok(u) == [NoRet EXCEPT !.kind = "structured", !.success = TRUE, !.task = u]

Fail(e) == [NoRet EXCEPT !.kind = "structured", !.error = e]

Raised(e) == [NoRet EXCEPT !.kind = "raised", !.error = e]

\* ------------------------------------------------------- single-task tools

\* `if task_id: get(id=task_id) else: get(uuid=uuid)` of get_task,
\* complete_task, delete_task, start_task and stop_task.
ResolveIdFirst(st, task_id, uuid) ==
    IF task_id # 0 THEN GetById(st, task_id) ELSE GetByUuid(st, uuid)

\* uncomplete_task: by uuid first, by id if that found nothing.
ResolveUuidFirst(st, task_id, uuid) ==
    LET byUuid == IF Truthy(uuid) THEN GetByUuid(st, uuid) ELSE 0
    IN IF byUuid # 0 THEN byUuid
       ELSE IF task_id # 0 THEN GetById(st, task_id) ELSE 0

\* The `except Task.DoesNotExist` handler of get_task and complete_task builds
\* its message from task_id and uuid.
NotFoundHandled == Fail("not found")

\* The `except Task.DoesNotExist` handler of modify_task, delete_task,
\* start_task and stop_task reads `params.task_id`; no name `params` exists in
\* these functions, so the handler itself raises NameError, which no sibling
\* except clause catches.
NotFoundParams == Raised("NameError")

\* get_task
GetTaskResult(st, task_id, uuid) ==
    IF task_id = 0 /\ ~Truthy(uuid) THEN Fail("validation")
    ELSE LET i == ResolveIdFirst(st, task_id, uuid)
         IN IF i = 0 THEN NotFoundHandled ELSE Ok(st[i].uuid)

\* complete_task, delete_task, start_task, stop_task: the result and the store
\* after the call.  m is the store mutation, nf the DoesNotExist handler.
\* start_task and stop_task return the task, the other two a message only.
MutateOne(st, m, nf, task_id, uuid) ==
    IF task_id = 0 /\ ~Truthy(uuid)
    THEN [ret |-> Fail("validation"), store |-> st, cmds |-> <<>>, writes |-> <<>>]
    ELSE LET i == ResolveIdFirst(st, task_id, uuid)
         IN IF i = 0 THEN [ret |-> nf, store |-> st, cmds |-> <<>>, writes |-> <<>>]
            ELSE IF MutationError(m, st[i]) # ""
                 THEN [ret |-> Fail(MutationError(m, st[i])), store |-> st, cmds |-> <<>>, writes |-> <<>>]
                 ELSE [ret |-> Ok(IF m \in {"start", "stop"} THEN st[i].uuid ELSE NONE),
                       store |-> [st EXCEPT ![i] = Mutated(m, st[i])], cmds |-> <<>>, writes |-> <<>>]

\* uncomplete_task
UncompleteOne(st, task_id, uuid) ==
    IF task_id = 0 /\ ~Truthy(uuid)
    THEN [ret |-> Fail("validation"), store |-> st, cmds |-> <<>>, writes |-> <<>>]
    ELSE LET i == ResolveUuidFirst(st, task_id, uuid)
         IN IF i = 0 THEN [ret |-> Fail("not found"), store |-> st, cmds |-> <<>>, writes |-> <<>>]
            ELSE IF st[i].status # "completed"
                 THEN [ret |-> Fail("not completed"), store |-> st, cmds |-> <<>>, writes |-> <<>>]
                 ELSE [ret |-> Ok(st[i].uuid),
                       store |-> [st EXCEPT ![i] = WithStatus(st[i], "pending")], cmds |-> <<>>, writes |-> <<>>]

\* task['project'] = value then save(): an empty string clears the field.
Stored(v) == IF v = "" THEN NONE ELSE v

\* Mutant of ModifyFields: an empty project or priority is taken as absent.
ModifyFieldsTruthy(t, u) ==
    LET t1 == IF u.description # <<>> THEN [t EXCEPT !.description = u.description] ELSE t
        t2 == IF Truthy(u.project) THEN [t1 EXCEPT !.project = u.project] ELSE t1
        t3 == IF Truthy(u.priority) THEN [t2 EXCEPT !.priority = u.priority] ELSE t2
        t4 == IF u.has_tags THEN [t3 EXCEPT !.tags = u.tags] ELSE t3
    IN IF u.due = NONE THEN [failed |-> FALSE, task |-> t4]
       ELSE IF u.due = "" THEN [failed |-> FALSE, task |-> [t4 EXCEPT !.due = 0]]
       ELSE IF ParseIso(u.due) < 0 THEN [failed |-> TRUE, task |-> t]
       ELSE [failed |-> FALSE, task |-> [t4 EXCEPT !.due = ParseIso(u.due)]]

\* The field assignments of modify_task (lines 264-280) on task t; `failed`
\* is set where datetime.fromisoformat raises.
ModifyFields(t, u) ==
    LET t1 == IF u.description # <<>> THEN [t EXCEPT !.description = u.description] ELSE t
        t2 == IF u.project # NONE THEN [t1 EXCEPT !.project = Stored(u.project)] ELSE t1
        t3 == IF u.priority # NONE THEN [t2 EXCEPT !.priority = Stored(u.priority)] ELSE t2
        t4 == IF u.has_tags THEN [t3 EXCEPT !.tags = u.tags] ELSE t3
    IN IF u.due = NONE THEN [failed |-> FALSE, task |-> t4]
       ELSE IF u.due = "" THEN [failed |-> FALSE, task |-> [t4 EXCEPT !.due = 0]]
       ELSE IF ParseIso(u.due) < 0 THEN [failed |-> TRUE, task |-> t]
       ELSE [failed |-> FALSE, task |-> [t4 EXCEPT !.due = ParseIso(u.due)]]

\* modify_task
ModifyOne(st, task_id, u) ==
    LET i == GetById(st, task_id)
    IN IF i = 0 THEN [ret |-> NotFoundParams, store |-> st, cmds |-> <<>>, writes |-> <<>>]
       ELSE LET m == ModifyFields(st[i], u)
            IN IF m.failed THEN [ret |-> Fail("ValueError"), store |-> st, cmds |-> <<>>, writes |-> <<>>]
               ELSE [ret |-> Ok(st[i].uuid), store |-> [st EXCEPT ![i] = m.task], cmds |-> <<>>, writes |-> <<>>]

\* ------------------------------------------------------------ filter_tasks

\* The status scope (lines 18-28): positions of the store, in store order.
RECURSIVE ScopeFrom(_, _, _)
ScopeFrom(st, status, i) ==
    IF i > Len(st) THEN <<>>
    ELSE (IF Truthy(status) => st[i].status = status THEN <<i>> ELSE <<>>)
         \o ScopeFrom(st, status, i + 1)

Scope(st, status) == ScopeFrom(st, status, 1)

\* any(tag in task_model.tags for tag in filters.tags)
AnyTagIn(ftags, ttags) == \E k \in 1..Len(ftags) : ftags[k] \in ttags

\* Lines 59 and 64: the bound is parsed only for a task that has a due date.
DueParseRaises(t, f) ==
    \/ Truthy(f.due_before) /\ t.due # 0 /\ ParseIso(f.due_before) < 0
    \/ Truthy(f.due_after) /\ t.due # 0 /\ ParseIso(f.due_after) < 0

\* Mutant of MatchesTask: a task must carry every tag of the filter.
MatchesTaskAllTags(t, f) ==
    /\ Truthy(f.project) => t.project = f.project
    /\ Truthy(f.priority) => t.priority = f.priority
    /\ f.tags # <<>> => \A k \in 1..Len(f.tags) : f.tags[k] \in t.tags
    /\ f.description_contains # <<>> =>
          (t.description # <<>>
           /\ Contains(Lower(t.description), Lower(f.description_contains)))
    /\ (Truthy(f.due_before) /\ t.due # 0) => t.due < ParseIso(f.due_before)
    /\ (Truthy(f.due_after) /\ t.due # 0) => t.due > ParseIso(f.due_after)

\* Mutant of MatchesTask: the project test is skipped for a task without a
\* project.
MatchesTaskNoProject(t, f) ==
    /\ (Truthy(f.project) /\ t.project # NONE) => t.project = f.project
    /\ Truthy(f.priority) => t.priority = f.priority
    /\ f.tags # <<>> => \E k \in 1..Len(f.tags) : f.tags[k] \in t.tags
    /\ f.description_contains # <<>> =>
          (t.description # <<>>
           /\ Contains(Lower(t.description), Lower(f.description_contains)))
    /\ (Truthy(f.due_before) /\ t.due # 0) => t.due < ParseIso(f.due_before)
    /\ (Truthy(f.due_after) /\ t.due # 0) => t.due > ParseIso(f.due_after)

\* The flag `matches` at line 69 for one task (lines 35-67).
MatchesTask(t, f) ==
    LET m0 == TRUE
        m1 == IF Truthy(f.project) /\ t.project # f.project THEN FALSE ELSE m0
        m2 == IF Truthy(f.priority) /\ t.priority # f.priority THEN FALSE ELSE m1
        m3 == IF f.tags # <<>> /\ (t.tags = {} \/ ~AnyTagIn(f.tags, t.tags))
              THEN FALSE ELSE m2
        m4 == IF f.description_contains # <<>>
                 /\ (t.description = <<>>
                     \/ ~Contains(Lower(t.description), Lower(f.description_contains)))
              THEN FALSE ELSE m3
        m5 == IF Truthy(f.due_before) /\ t.due # 0 /\ t.due >= ParseIso(f.due_before)
              THEN FALSE ELSE m4
        m6 == IF Truthy(f.due_after) /\ t.due # 0 /\ t.due <= ParseIso(f.due_after)
              THEN FALSE ELSE m5
    IN m6

\* The loop of lines 32-70 over the scope from position k on: the positions
\* appended to filtered_tasks, or `raised` once a date bound fails to parse.
RECURSIVE FilterLoop(_, _, _, _)
FilterLoop(st, f, scope, k) ==
    IF k > Len(scope) THEN [raised |-> FALSE, tasks |-> <<>>]
    ELSE IF DueParseRaises(st[scope[k]], f) THEN [raised |-> TRUE, tasks |-> <<>>]
    ELSE LET rest == FilterLoop(st, f, scope, k + 1)
         IN IF rest.raised THEN rest
            ELSE [raised |-> FALSE,
                  tasks |-> (IF MatchesTask(st[scope[k]], f) THEN <<scope[k]>> ELSE <<>>)
                            \o rest.tasks]

\* Python truthiness of an Optional[int]: None and 0 are falsy.
TruthyInt(n) == n # NoLimit /\ n # 0

\* Lines 73-74: `if filters.limit and len(filtered_tasks) > filters.limit`.
ApplyLimit(tasks, limit) ==
    IF TruthyInt(limit) /\ Len(tasks) > limit THEN SubSeq(tasks, 1, limit) ELSE tasks

\* filter_tasks: positions of the matching tasks, or raised (ValueError).
FilterTasks(st, f) ==
    LET r == FilterLoop(st, f, Scope(st, f.status), 1)
    IN IF r.raised THEN r ELSE [raised |-> FALSE, tasks |-> ApplyLimit(r.tasks, f.limit)]

RECURSIVE UuidsAt(_, _, _)
UuidsAt(st, tasks, k) ==
    IF k > Len(tasks) THEN <<>> ELSE <<st[tasks[k]].uuid>> \o UuidsAt(st, tasks, k + 1)

\* --------------------------------------------------------------- list_tasks

\* tw.tasks.filter(**filters) followed by the tag loop (lines 83-99): the
\* positions kept, in store order, from position i on.
RECURSIVE ListFrom(_, _, _)
ListFrom(st, f, i) ==
    IF i > Len(st) THEN <<>>
    ELSE (IF /\ Truthy(f.status) => st[i].status = f.status
             /\ Truthy(f.project) => st[i].project = f.project
             /\ f.tags # <<>> => AnyTagIn(f.tags, st[i].tags)
          THEN <<i>> ELSE <<>>)
         \o ListFrom(st, f, i + 1)

\* Lines 102-106: `if limit and i >= limit: break`.
ListLimit(tasks, limit) ==
    IF TruthyInt(limit) /\ Len(tasks) > limit THEN SubSeq(tasks, 1, limit) ELSE tasks

\* list_tasks
ListTasks(st, f) ==
    LET task_list == ListLimit(ListFrom(st, f, 1), f.limit)
    IN [Ok(NONE) EXCEPT !.tasks = UuidsAt(st, task_list, 1), !.count = Len(task_list)]

\* ------------------------------------------------------------- batch tools

Acc0(st) == [store |-> st, results |-> <<>>, errors |-> <<>>, writes |-> <<>>]

\* The record at position i is written to the store as t (done(), delete(),
\* start(), stop() or save()).
Write(acc, i, t) == [acc EXCEPT !.store[i] = t, !.writes = Append(@, t.uuid)]

AddResult(acc, tid) == [acc EXCEPT !.results = Append(@, [task_id |-> tid])]

AddError(acc, tid, k) == [acc EXCEPT !.errors = Append(@, [task_id |-> tid, kind |-> k])]

\* Mutant of BatchSuccess: success as soon as one record succeeded.
BatchSuccessAny(acc) == Len(acc.results) > 0

\* The returned mapping of a batch tool (e.g. lines 59-64).
BatchSuccess(acc) == Len(acc.errors) = 0

BatchCount(acc) == Len(acc.results)

BatchRet(acc) ==
    [NoRet EXCEPT !.kind = "batch", !.success = BatchSuccess(acc),
                  !.count = BatchCount(acc), !.results = acc.results,
                  !.errors = acc.errors]

\* One iteration of the loop of batch_complete_by_ids, batch_delete_by_ids,
\* batch_start_by_ids and batch_stop_by_ids (e.g. lines 45-57).
ByIdsStep(acc, m, tid) ==
    LET i == GetById(acc.store, tid)
    IN IF i = 0 THEN AddError(acc, tid, "not found")
       ELSE IF MutationError(m, acc.store[i]) # "" THEN AddError(acc, tid, "error")
       ELSE AddResult(Write(acc, i, Mutated(m, acc.store[i])), tid)

\* Mutant of ByIdsLoop: the loop ends at the first id that is not found.
RECURSIVE ByIdsLoopAbort(_, _, _, _)
ByIdsLoopAbort(acc, m, ids, k) ==
    IF k > Len(ids) THEN acc
    ELSE IF GetById(acc.store, ids[k]) = 0 THEN AddError(acc, ids[k], "not found")
    ELSE ByIdsLoopAbort(ByIdsStep(acc, m, ids[k]), m, ids, k + 1)

\* Mutant of ByIdsLoop: the id list is walked from its last entry to its first.
RECURSIVE ByIdsLoopReversed(_, _, _, _)
ByIdsLoopReversed(acc, m, ids, k) ==
    IF k > Len(ids) THEN acc
    ELSE ByIdsLoopReversed(ByIdsStep(acc, m, ids[Len(ids) + 1 - k]), m, ids, k + 1)

\* The loop `for task_id in params.task_ids` (e.g. lines 45-57).
RECURSIVE ByIdsLoop(_, _, _, _)
ByIdsLoop(acc, m, ids, k) ==
    IF k > Len(ids) THEN acc
    ELSE ByIdsLoop(ByIdsStep(acc, m, ids[k]), m, ids, k + 1)

\* `str(task_id) in task_uuids` (line 139).  task_uuids is declared
\* Dict[int, str]: its keys are <<"int", n>>, the key looked up is
\* <<"str", n>>.
UuidKeyed(task_uuids, tid) ==
    IF \E e \in task_uuids : e.key = <<"str", tid>>
    THEN (CHOOSE e \in task_uuids : e.key = <<"str", tid>>).uuid
    ELSE NONE

\* Lines 136-151 of batch_uncomplete_by_ids.
UncompleteLookup(st, task_uuids, tid) ==
    LET u == UuidKeyed(task_uuids, tid)
        byUuid == IF u # NONE THEN GetByUuid(st, u) ELSE 0
    IN IF byUuid # 0 THEN byUuid ELSE GetById(st, tid)

\* Lines 153-170: the uncomplete of the task at position i (0: none found).
UncompleteAt(acc, i, tid) ==
    IF i = 0 THEN AddError(acc, tid, "not found")
    ELSE IF acc.store[i].status # "completed" THEN AddError(acc, tid, "not completed")
    ELSE AddResult(Write(acc, i, WithStatus(acc.store[i], "pending")), tid)

RECURSIVE UncompleteIdsLoop(_, _, _, _)
UncompleteIdsLoop(acc, task_uuids, ids, k) ==
    IF k > Len(ids) THEN acc
    ELSE UncompleteIdsLoop(
             UncompleteAt(acc, UncompleteLookup(acc.store, task_uuids, ids[k]), ids[k]),
             task_uuids, ids, k + 1)

\* One iteration of the loop of batch_complete_by_filter and
\* batch_delete_by_filter over the task at position i (e.g. lines 101-110);
\* task['id'] is read after the mutation.
ByFilterStep(acc, m, i) ==
    IF MutationError(m, acc.store[i]) # "" THEN AddError(acc, acc.store[i].id, "error")
    ELSE AddResult(Write(acc, i, Mutated(m, acc.store[i])),
                   Mutated(m, acc.store[i]).id)

\* One iteration of the loop of batch_uncomplete_by_filter (lines 216-233).
UncompleteFilterStep(acc, i) ==
    IF acc.store[i].status # "completed"
    THEN AddError(acc, acc.store[i].id, "not completed")
    ELSE AddResult(Write(acc, i, WithStatus(acc.store[i], "pending")),
                   WithStatus(acc.store[i], "pending").id)

\* Mutant of BatchModifyFields: the tags are removed before the others are
\* added.
BatchModifyFieldsRemoveFirst(t, u) ==
    LET t1 == IF u.project # NONE THEN [t EXCEPT !.project = Stored(u.project)] ELSE t
        t2 == IF u.priority # NONE THEN [t1 EXCEPT !.priority = Stored(u.priority)] ELSE t1
        t3 == IF u.remove_tags # {} THEN [t2 EXCEPT !.tags = @ \ u.remove_tags] ELSE t2
        t4 == IF u.add_tags # {} THEN [t3 EXCEPT !.tags = @ \cup u.add_tags] ELSE t3
    IN IF u.due = NONE THEN [failed |-> FALSE, task |-> t4]
       ELSE IF u.due = "" THEN [failed |-> FALSE, task |-> [t4 EXCEPT !.due = 0]]
       ELSE IF ParseIso(u.due) < 0 THEN [failed |-> TRUE, task |-> t]
       ELSE [failed |-> FALSE, task |-> [t4 EXCEPT !.due = ParseIso(u.due)]]

\* The field assignments of batch_modify_tasks (lines 467-493) on task t.
BatchModifyFields(t, u) ==
    LET t1 == IF u.project # NONE THEN [t EXCEPT !.project = Stored(u.project)] ELSE t
        t2 == IF u.priority # NONE THEN [t1 EXCEPT !.priority = Stored(u.priority)] ELSE t1
        t3 == IF u.add_tags # {} THEN [t2 EXCEPT !.tags = @ \cup u.add_tags] ELSE t2
        t4 == IF u.remove_tags # {} THEN [t3 EXCEPT !.tags = @ \ u.remove_tags] ELSE t3
    IN IF u.due = NONE THEN [failed |-> FALSE, task |-> t4]
       ELSE IF u.due = "" THEN [failed |-> FALSE, task |-> [t4 EXCEPT !.due = 0]]
       ELSE IF ParseIso(u.due) < 0 THEN [failed |-> TRUE, task |-> t]
       ELSE [failed |-> FALSE, task |-> [t4 EXCEPT !.due = ParseIso(u.due)]]

\* Mutant of ModifyStep: adding a tag the record has, or removing one it does
\* not have, is reported as an error.
ModifyStepStrict(acc, u, i) ==
    LET m == BatchModifyFields(acc.store[i], u)
    IN IF \/ m.failed
          \/ u.add_tags \cap acc.store[i].tags # {}
          \/ u.remove_tags \ acc.store[i].tags # {}
       THEN AddError(acc, acc.store[i].id, "error")
       ELSE AddResult(Write(acc, i, m.task), m.task.id)

\* Mutant of ModifyStep: a record whose due string does not parse is saved
\* with the fields assigned before the failure, then reported in errors.
ModifyStepSavesPartial(acc, u, i) ==
    LET m == BatchModifyFields(acc.store[i], u)
        partial == BatchModifyFields(acc.store[i], [u EXCEPT !.due = NONE])
    IN IF m.failed THEN AddError(Write(acc, i, partial.task), acc.store[i].id, "error")
       ELSE AddResult(Write(acc, i, m.task), m.task.id)

\* One iteration of the loop of batch_modify_tasks (lines 464-503).
ModifyStep(acc, u, i) ==
    LET m == BatchModifyFields(acc.store[i], u)
    IN IF m.failed THEN AddError(acc, acc.store[i].id, "error")
       ELSE AddResult(Write(acc, i, m.task), m.task.id)

\* Mutant of TasksLoop: the loop ends at the first record that fails.
RECURSIVE TasksLoopAbort(_, _, _, _, _)
TasksLoopAbort(acc, kind, u, tasks, k) ==
    IF k > Len(tasks) \/ acc.errors # <<>> THEN acc
    ELSE TasksLoopAbort(
             CASE kind = "uncomplete" -> UncompleteFilterStep(acc, tasks[k])
               [] kind = "modify" -> ModifyStep(acc, u, tasks[k])
               [] OTHER -> ByFilterStep(acc, kind, tasks[k]),
             kind, u, tasks, k + 1)

\* The loop of a batch tool over the positions `tasks`; kind names the step.
RECURSIVE TasksLoop(_, _, _, _, _)
TasksLoop(acc, kind, u, tasks, k) ==
    IF k > Len(tasks) THEN acc
    ELSE TasksLoop(
             CASE kind = "uncomplete" -> UncompleteFilterStep(acc, tasks[k])
               [] kind = "modify" -> ModifyStep(acc, u, tasks[k])
               [] OTHER -> ByFilterStep(acc, kind, tasks[k]),
             kind, u, tasks, k + 1)

\* batch_complete_by_filter, batch_uncomplete_by_filter, batch_delete_by_filter:
\* filter_tasks raising is caught by the outer handler (e.g. lines 118-123).
ByFilter(st, kind, f) ==
    LET r == FilterTasks(st, f)
    IN IF r.raised THEN [ret |-> Fail("ValueError"), store |-> st, cmds |-> <<>>, writes |-> <<>>]
       ELSE LET acc == TasksLoop(Acc0(st), kind, NoUpdate, r.tasks, 1)
            IN [ret |-> BatchRet(acc), store |-> acc.store, cmds |-> <<>>,
                     writes |-> acc.writes]

\* Lines 432-438 of batch_modify_tasks: the ids that resolve, in list order.
RECURSIVE FoundTasks(_, _, _)
FoundTasks(st, ids, k) ==
    IF k > Len(ids) THEN <<>>
    ELSE (IF GetById(st, ids[k]) = 0 THEN <<>> ELSE <<GetById(st, ids[k])>>)
         \o FoundTasks(st, ids, k + 1)

\* any([status, filter_project, ..., filter_limit]) (lines 439-440).
AnyFilterSet(f) ==
    \/ Truthy(f.status) \/ Truthy(f.project) \/ f.tags # <<>> \/ Truthy(f.priority)
    \/ f.description_contains # <<>> \/ Truthy(f.due_before) \/ Truthy(f.due_after)
    \/ TruthyInt(f.limit)

\* batch_modify_tasks
BatchModify(st, ids, f, u) ==
    IF ids = <<>> /\ ~AnyFilterSet(f) THEN [ret |-> Fail("validation"), store |-> st, cmds |-> <<>>, writes |-> <<>>]
    ELSE LET sel == IF ids # <<>> THEN [raised |-> FALSE, tasks |-> FoundTasks(st, ids, 1)]
                    ELSE FilterTasks(st, f)
         IN IF sel.raised THEN [ret |-> Fail("ValueError"), store |-> st, cmds |-> <<>>, writes |-> <<>>]
            ELSE LET acc == TasksLoop(Acc0(st), "modify", u, sel.tasks, 1)
                 IN [ret |-> BatchRet(acc), store |-> acc.store, cmds |-> <<>>,
                     writes |-> acc.writes]


\* ------------------------------------------------------ purge_deleted_tasks

RECURSIVE WithoutDeleted(_, _)
WithoutDeleted(st, k) ==
    IF k > Len(st) THEN <<>>
    ELSE (IF st[k].status = "deleted" THEN <<>> ELSE <<st[k]>>) \o WithoutDeleted(st, k + 1)

\* Mutant of DeletedCount: the records left after the purge are counted.
DeletedCountAfter(st) == Cardinality({i \in 1..Len(st) : st[i].status # "deleted"})

DeletedCount(st) == Cardinality({i \in 1..Len(st) : st[i].status = "deleted"})

\* A `task` command run through subprocess.run: the command word, the uuid or
\* numeric id it is addressed to, and the status it sets.
Cmd(c, u, n, s) == [cmd |-> c, uuid |-> u, id |-> n, status |-> s]

\* ['task', 'purge'] (lines 549-553).
PurgeCmd == Cmd("purge", NONE, 0, NONE)

\* What the store does during one purge_deleted_tasks call: the listing of the
\* deleted tasks fails ("list_fails"), or it succeeds and `task purge` exits 0
\* ("ok"), exits non-zero ("rejected"), runs into the 30 s timeout having
\* purged nothing ("timeout") or everything ("timeout_purged"), or cannot be
\* started ("oserror").
PurgeOutcomes == {"list_fails", "ok", "rejected", "timeout", "timeout_purged", "oserror"}

\* Mutant of Purge: the purge command is run whatever the count.
PurgeAlways(st, ext) ==
    IF ext = "list_fails"
    THEN [ret |-> Raised("UnboundLocalError"), store |-> st, cmds |-> <<>>, writes |-> <<>>]
    ELSE CASE ext = "ok" ->
                [ret |-> [Ok(NONE) EXCEPT !.purged_count = DeletedCount(st)],
                 store |-> WithoutDeleted(st, 1), cmds |-> <<PurgeCmd>>, writes |-> <<>>]
           [] ext = "rejected" ->
                [ret |-> [Fail("purge failed") EXCEPT !.found_deleted_count = DeletedCount(st)],
                 store |-> st, cmds |-> <<PurgeCmd>>, writes |-> <<>>]
           [] ext = "timeout" ->
                [ret |-> Fail("timed out"), store |-> st, cmds |-> <<PurgeCmd>>, writes |-> <<>>]
           [] ext = "timeout_purged" ->
                [ret |-> Fail("timed out"), store |-> WithoutDeleted(st, 1),
                 cmds |-> <<PurgeCmd>>, writes |-> <<>>]
           [] OTHER -> [ret |-> Fail("error"), store |-> st, cmds |-> <<PurgeCmd>>, writes |-> <<>>]

\* Mutant of Purge: a timeout is reported as 'nothing to purge'.
PurgeTimeoutSilent(st, ext) ==
    IF ext = "list_fails"
    THEN [ret |-> Raised("UnboundLocalError"), store |-> st, cmds |-> <<>>, writes |-> <<>>]
    ELSE IF DeletedCount(st) = 0
    THEN [ret |-> [Ok(NONE) EXCEPT !.purged_count = 0], store |-> st, cmds |-> <<>>, writes |-> <<>>]
    ELSE CASE ext = "ok" ->
                [ret |-> [Ok(NONE) EXCEPT !.purged_count = DeletedCount(st)],
                 store |-> WithoutDeleted(st, 1), cmds |-> <<PurgeCmd>>, writes |-> <<>>]
           [] ext = "rejected" ->
                [ret |-> [Fail("purge failed") EXCEPT !.found_deleted_count = DeletedCount(st)],
                 store |-> st, cmds |-> <<PurgeCmd>>, writes |-> <<>>]
           [] ext = "timeout" ->
                [ret |-> [Ok(NONE) EXCEPT !.purged_count = 0], store |-> st,
                 cmds |-> <<PurgeCmd>>, writes |-> <<>>]
           [] ext = "timeout_purged" ->
                [ret |-> [Ok(NONE) EXCEPT !.purged_count = 0],
                 store |-> WithoutDeleted(st, 1), cmds |-> <<PurgeCmd>>, writes |-> <<>>]
           [] OTHER -> [ret |-> Fail("error"), store |-> st, cmds |-> <<PurgeCmd>>, writes |-> <<>>]

\* purge_deleted_tasks.  `subprocess` is a local name of the function, bound by
\* the import at line 548; when the listing at line 535 raises, matching
\* `except subprocess.TimeoutExpired` reads the unbound local and raises
\* UnboundLocalError out of the function.
Purge(st, ext) ==
    IF ext = "list_fails"
    THEN [ret |-> Raised("UnboundLocalError"), store |-> st, cmds |-> <<>>, writes |-> <<>>]
    ELSE IF DeletedCount(st) = 0
    THEN [ret |-> [Ok(NONE) EXCEPT !.purged_count = 0], store |-> st, cmds |-> <<>>, writes |-> <<>>]
    ELSE CASE ext = "ok" ->
                [ret |-> [Ok(NONE) EXCEPT !.purged_count = DeletedCount(st)],
                 store |-> WithoutDeleted(st, 1), cmds |-> <<PurgeCmd>>, writes |-> <<>>]
           [] ext = "rejected" ->
                [ret |-> [Fail("purge failed") EXCEPT !.found_deleted_count = DeletedCount(st)],
                 store |-> st, cmds |-> <<PurgeCmd>>, writes |-> <<>>]
           [] ext = "timeout" ->
                [ret |-> Fail("timed out"), store |-> st, cmds |-> <<PurgeCmd>>, writes |-> <<>>]
           [] ext = "timeout_purged" ->
                [ret |-> Fail("timed out"), store |-> WithoutDeleted(st, 1),
                 cmds |-> <<PurgeCmd>>, writes |-> <<>>]
           [] OTHER -> [ret |-> Fail("error"), store |-> st, cmds |-> <<PurgeCmd>>, writes |-> <<>>]

\* ------------------------------------------------------------- restore_task

\* Position of the first record among `deleted` that has uuid u (0: none).
DeletedByUuid(st, deleted, u) ==
    IF \E k \in 1..Len(deleted) : st[deleted[k]].uuid = u
    THEN deleted[CHOOSE k \in 1..Len(deleted) :
                    /\ st[deleted[k]].uuid = u
                    /\ \A j \in 1..(k - 1) : st[deleted[j]].uuid # u]
    ELSE 0

\* Position of the first record among `deleted` whose id is set and equals n.
DeletedById(st, deleted, n) ==
    IF \E k \in 1..Len(deleted) : st[deleted[k]].id # 0 /\ st[deleted[k]].id = n
    THEN deleted[CHOOSE k \in 1..Len(deleted) :
                    /\ st[deleted[k]].id # 0 /\ st[deleted[k]].id = n
                    /\ \A j \in 1..(k - 1) : st[deleted[j]].id # n]
    ELSE 0

\* Lines 423-461: the deleted record restore_task settles on (0: none): by
\* uuid, else by id, else, when a task_id was given, the most recently deleted
\* record, which is at position `recent`.
RestoreTarget(st, task_id, uuid, recent) ==
    LET deleted == Scope(st, "deleted")
        byUuid == IF Truthy(uuid) THEN DeletedByUuid(st, deleted, uuid) ELSE 0
        byId == IF byUuid = 0 /\ task_id # 0 THEN DeletedById(st, deleted, task_id)
                ELSE byUuid
    IN IF byId = 0 /\ task_id # 0 /\ deleted # <<>> THEN recent ELSE byId

\* `status or 'pending'` (line 470).
NewStatus(status) == IF Truthy(status) THEN status ELSE "pending"

\* ['task', uuid_val, 'modify', f'status:{new_status}'] (lines 478-483).
ModifyCmd(u, s) == Cmd("modify", u, 0, s)

\* ['task', str(task_id), 'undelete'] (lines 495-501).
UndeleteCmd(task_id) == Cmd("undelete", NONE, task_id, NONE)

\* The store's undelete of the record addressed by numeric id n: the deleted
\* record that had id n while it was pending becomes pending again.
Undelete(st, n) ==
    [j \in 1..Len(st) |->
        IF n # 0 /\ st[j].status = "deleted" /\ IdOf(st[j].uuid) = n
        THEN WithStatus(st[j], "pending") ELSE st[j]]

\* Mutant of Restore: a rejected direct status-set is reported at once.
RestoreNoFallback(st, task_id, uuid, status, recent, ext, ext2) ==
    IF task_id = 0 /\ ~Truthy(uuid)
    THEN [ret |-> Fail("validation"), store |-> st, cmds |-> <<>>, writes |-> <<>>]
    ELSE LET i == RestoreTarget(st, task_id, uuid, recent)
             s == NewStatus(status)
         IN IF i = 0 THEN [ret |-> Fail("no deleted tasks"), store |-> st, cmds |-> <<>>, writes |-> <<>>]
            ELSE CASE ext = "ok" ->
                        [ret |-> Ok(st[i].uuid),
                         store |-> [st EXCEPT ![i] = WithStatus(st[i], s)],
                         cmds |-> <<ModifyCmd(st[i].uuid, s)>>, writes |-> <<>>]
                   [] ext = "timeout" ->
                        [ret |-> Fail("timed out"), store |-> st,
                         cmds |-> <<ModifyCmd(st[i].uuid, s)>>, writes |-> <<>>]
                   [] OTHER ->
                        [ret |-> Fail("undelete stderr"), store |-> st,
                         cmds |-> <<ModifyCmd(st[i].uuid, s)>>, writes |-> <<>>]

\* restore_task.  ext is what the store does with the direct status-set, ext2
\* what it does with the undelete: exit 0 ("ok"), non-zero exit ("rejected") or
\* no answer within 30 s ("timeout", the TimeoutExpired is caught at line 524).
Restore(st, task_id, uuid, status, recent, ext, ext2) ==
    IF task_id = 0 /\ ~Truthy(uuid)
    THEN [ret |-> Fail("validation"), store |-> st, cmds |-> <<>>, writes |-> <<>>]
    ELSE LET i == RestoreTarget(st, task_id, uuid, recent)
             s == NewStatus(status)
         IN IF i = 0 THEN [ret |-> Fail("no deleted tasks"), store |-> st, cmds |-> <<>>, writes |-> <<>>]
            ELSE CASE ext = "ok" ->
                        [ret |-> Ok(st[i].uuid),
                         store |-> [st EXCEPT ![i] = WithStatus(st[i], s)],
                         cmds |-> <<ModifyCmd(st[i].uuid, s)>>, writes |-> <<>>]
                   [] ext = "timeout" ->
                        [ret |-> Fail("timed out"), store |-> st,
                         cmds |-> <<ModifyCmd(st[i].uuid, s)>>, writes |-> <<>>]
                   [] ext2 = "ok" ->
                        [ret |-> Ok(st[i].uuid),
                         store |-> IF s # "pending"
                                   THEN [Undelete(st, task_id) EXCEPT ![i] = WithStatus(@, s)]
                                   ELSE Undelete(st, task_id),
                         cmds |-> <<ModifyCmd(st[i].uuid, s), UndeleteCmd(task_id)>>, writes |-> <<>>]
                   [] ext2 = "timeout" ->
                        [ret |-> Fail("timed out"), store |-> st,
                         cmds |-> <<ModifyCmd(st[i].uuid, s), UndeleteCmd(task_id)>>, writes |-> <<>>]
                   [] OTHER ->
                        [ret |-> Fail("undelete stderr"), store |-> st,
                         cmds |-> <<ModifyCmd(st[i].uuid, s), UndeleteCmd(task_id)>>, writes |-> <<>>]

\* ------------------------------------------------------------ input domains

\* The tasks of the store the tools are exercised on, in store order.
ToolUuids == <<"u1", "u2">>

\* Ids a caller may name: those of the tasks above and one no task has.
CallIds == 1..(Len(ToolUuids) + 1)

\* Uuids a caller may name: those of the tasks above and one no task has.
CallUuids == {"u1", "u2", "u9"}

Statuses == {"pending", "completed", "deleted"}

\* Status and time tracking of a task: only a pending task can be tracked.
Lifecycles ==
    {lc \in [status : Statuses, active : BOOLEAN] : lc.active => lc.status = "pending"}

\* The store at start: every task in any status, a pending one tracked or not.
ToolStores ==
    {<<MkTask("u1", l1.status, l1.active, "X", "H", {"a"}, <<"A", "b">>, 2),
       MkTask("u2", l2.status, l2.active, NONE, NONE, {}, <<>>, 0)>> :
        l1 \in Lifecycles, l2 \in Lifecycles}

IdLists == UNION {[1..n -> CallIds] : n \in 0..MaxIds}

\* task_uuids arguments: absent, or one entry keyed by an id as the declared
\* Dict[int, str] has it, or keyed by the id's string as line 139 looks it up.
UuidMaps ==
    {{}} \cup {{[key |-> <<"int", 1>>, uuid |-> "u2"]}}
         \cup {{[key |-> <<"str", n>>, uuid |-> "u2"]} : n \in {1, 3}}

ToolFilters ==
    {[NoFilter EXCEPT !.status = s, !.project = p, !.due_before = d, !.limit = l] :
        s \in {NONE, "pending", "completed"}, p \in {NONE, "X"},
        d \in {NONE, "D3", "bad"}, l \in {NoLimit, 0, 1}}

\* batch_modify_tasks selects by ids or, with no ids, by filter.
ModifySelections ==
    {[task_ids |-> ids, filters |-> NoFilter] : ids \in IdLists}
    \cup {[task_ids |-> <<>>, filters |-> f] : f \in ToolFilters}

ToolUpdates ==
    {[NoUpdate EXCEPT !.project = p, !.due = d] : p \in {NONE, "", "X"}, d \in {NONE, "bad"}}


\* ----------------------------------------------------------------- actions

Init ==
    /\ store \in ToolStores
    /\ pre = store
    /\ call = NoCall
    /\ ret = NoRet
    /\ phase = "idle"
    /\ cmds = <<>>
    /\ writes = <<>>
    /\ mem = <<>>

\* A tool call runs to completion: c is the call, out its result, the store it
\* leaves, the `task` commands it ran through subprocess.run and the uuids of
\* the records its batch loop wrote to the store, in the order of the writes.
Return(c, out) ==
    /\ phase = "idle"
    /\ pre' = store
    /\ call' = c
    /\ ret' = out.ret
    /\ store' = out.store
    /\ cmds' = out.cmds
    /\ writes' = out.writes
    /\ phase' = "returned"
    /\ UNCHANGED mem

\* list_tasks arguments: status defaults to 'pending'.
ListFilters ==
    {[NoFilter EXCEPT !.status = s, !.project = p, !.tags = tg, !.limit = l] :
        s \in {"pending", "completed", ""}, p \in {NONE, "X"},
        tg \in {<<>>, <<"a", "b">>}, l \in {NoLimit, 0, 1, 2}}

list_tasks ==
    \E f \in ListFilters :
        Return([NoCall EXCEPT !.op = "list_tasks", !.filters = f],
               [ret |-> ListTasks(store, f), store |-> store, cmds |-> <<>>, writes |-> <<>>])

get_task ==
    \E tid \in {0} \cup CallIds, u \in {NONE} \cup CallUuids :
        Return([NoCall EXCEPT !.op = "get_task", !.task_id = tid, !.uuid = u],
               [ret |-> GetTaskResult(store, tid, u), store |-> store, cmds |-> <<>>, writes |-> <<>>])

complete_task ==
    \E tid \in {0} \cup CallIds, u \in {NONE} \cup CallUuids :
        Return([NoCall EXCEPT !.op = "complete_task", !.task_id = tid, !.uuid = u],
               MutateOne(store, "done", NotFoundHandled, tid, u))

uncomplete_task ==
    \E tid \in {0} \cup CallIds, u \in {NONE} \cup CallUuids :
        Return([NoCall EXCEPT !.op = "uncomplete_task", !.task_id = tid, !.uuid = u],
               UncompleteOne(store, tid, u))

\* A modify_task call with its update drawn from `updates`.
CallModifyTask(updates) ==
    \E tid \in CallIds, u \in updates :
        Return([NoCall EXCEPT !.op = "modify_task", !.task_id = tid, !.upd = u],
               ModifyOne(store, tid, u))

modify_task == CallModifyTask(ToolUpdates)

delete_task ==
    \E tid \in {0} \cup CallIds, u \in {NONE} \cup CallUuids :
        Return([NoCall EXCEPT !.op = "delete_task", !.task_id = tid, !.uuid = u],
               MutateOne(store, "delete", NotFoundParams, tid, u))

start_task ==
    \E tid \in {0} \cup CallIds, u \in {NONE} \cup CallUuids :
        Return([NoCall EXCEPT !.op = "start_task", !.task_id = tid, !.uuid = u],
               MutateOne(store, "start", NotFoundParams, tid, u))

stop_task ==
    \E tid \in {0} \cup CallIds, u \in {NONE} \cup CallUuids :
        Return([NoCall EXCEPT !.op = "stop_task", !.task_id = tid, !.uuid = u],
               MutateOne(store, "stop", NotFoundParams, tid, u))

\* The four by-ids tools that share one loop, and their store mutation.
ByIdsMutation(op) ==
    CASE op = "batch_complete_by_ids" -> "done"
      [] op = "batch_delete_by_ids" -> "delete"
      [] op = "batch_start_by_ids" -> "start"
      [] OTHER -> "stop"

ByIds(st, op, ids) ==
    LET acc == ByIdsLoop(Acc0(st), ByIdsMutation(op), ids, 1)
    IN [ret |-> BatchRet(acc), store |-> acc.store, cmds |-> <<>>,
                     writes |-> acc.writes]

batch_complete_by_ids ==
    \E ids \in IdLists :
        Return([NoCall EXCEPT !.op = "batch_complete_by_ids", !.task_ids = ids],
               ByIds(store, "batch_complete_by_ids", ids))

batch_delete_by_ids ==
    \E ids \in IdLists :
        Return([NoCall EXCEPT !.op = "batch_delete_by_ids", !.task_ids = ids],
               ByIds(store, "batch_delete_by_ids", ids))

batch_start_by_ids ==
    \E ids \in IdLists :
        Return([NoCall EXCEPT !.op = "batch_start_by_ids", !.task_ids = ids],
               ByIds(store, "batch_start_by_ids", ids))

batch_stop_by_ids ==
    \E ids \in IdLists :
        Return([NoCall EXCEPT !.op = "batch_stop_by_ids", !.task_ids = ids],
               ByIds(store, "batch_stop_by_ids", ids))

batch_uncomplete_by_ids ==
    \E ids \in IdLists, tu \in UuidMaps :
        Return([NoCall EXCEPT !.op = "batch_uncomplete_by_ids", !.task_ids = ids,
                              !.task_uuids = tu],
               LET acc == UncompleteIdsLoop(Acc0(store), tu, ids, 1)
               IN [ret |-> BatchRet(acc), store |-> acc.store, cmds |-> <<>>,
                     writes |-> acc.writes])

batch_complete_by_filter ==
    \E f \in ToolFilters :
        Return([NoCall EXCEPT !.op = "batch_complete_by_filter", !.filters = f],
               ByFilter(store, "done", f))

batch_uncomplete_by_filter ==
    \E f \in ToolFilters :
        Return([NoCall EXCEPT !.op = "batch_uncomplete_by_filter", !.filters = f],
               ByFilter(store, "uncomplete", f))

batch_delete_by_filter ==
    \E f \in ToolFilters :
        Return([NoCall EXCEPT !.op = "batch_delete_by_filter", !.filters = f],
               ByFilter(store, "delete", f))

\* A batch_modify_tasks call with its selection and update drawn from the
\* given sets.
CallBatchModifyTasks(selections, updates) ==
    \E sel \in selections, u \in updates :
        Return([NoCall EXCEPT !.op = "batch_modify_tasks", !.task_ids = sel.task_ids,
                              !.filters = sel.filters, !.upd = u],
               BatchModify(store, sel.task_ids, sel.filters, u))

batch_modify_tasks == CallBatchModifyTasks(ModifySelections, ToolUpdates)

purge_deleted_tasks ==
    \E ext \in PurgeOutcomes :
        Return([NoCall EXCEPT !.op = "purge_deleted_tasks", !.ext = ext],
               Purge(store, ext))

\* Outcomes of the two store commands of restore_task; the undelete runs only
\* after a rejected direct status-set.
RestoreOutcomes ==
    {[ext |-> "ok", ext2 |-> "ok"], [ext |-> "timeout", ext2 |-> "ok"]}
    \cup {[ext |-> "rejected", ext2 |-> e] : e \in {"ok", "rejected", "timeout"}}

\* Positions the most recently deleted record can have in store st (0 when
\* none is deleted).
MostRecentlyDeleted(st) ==
    IF \E i \in 1..Len(st) : st[i].status = "deleted"
    THEN {i \in 1..Len(st) : st[i].status = "deleted"}
    ELSE {0}

restore_task ==
    \E tid \in {0} \cup CallIds, u \in {NONE} \cup CallUuids,
       s \in {NONE, "pending", "completed"}, o \in RestoreOutcomes,
       r \in MostRecentlyDeleted(store) :
        Return([NoCall EXCEPT !.op = "restore_task", !.task_id = tid, !.uuid = u,
                              !.status = s, !.recent = r, !.ext = o.ext, !.ext2 = o.ext2],
               Restore(store, tid, u, s, r, o.ext, o.ext2))

\* The next request arrives: the store is what the last call left.
NextRequest ==
    /\ phase = "returned"
    /\ phase' = "idle"
    /\ pre' = store
    /\ call' = NoCall
    /\ ret' = NoRet
    /\ cmds' = <<>>
    /\ writes' = <<>>
    /\ UNCHANGED <<store, mem>>

Next ==
    \/ list_tasks
    \/ get_task \/ complete_task \/ uncomplete_task \/ modify_task
    \/ delete_task \/ start_task \/ stop_task
    \/ batch_complete_by_ids \/ batch_uncomplete_by_ids \/ batch_delete_by_ids
    \/ batch_start_by_ids \/ batch_stop_by_ids
    \/ batch_complete_by_filter \/ batch_uncomplete_by_filter \/ batch_delete_by_filter
    \/ batch_modify_tasks
    \/ restore_task
    \/ purge_deleted_tasks
    \/ NextRequest

Spec == Init /\ [][Next]_vars


\* --------------------------------------------- filter_tasks called directly

\* Attribute profiles of the tasks filter_tasks is exercised on.
FilterProfiles ==
    {[status |-> "pending", project |-> "X", priority |-> "H",
      description |-> <<"A", "b">>, due |-> 2],
     [status |-> "pending", project |-> NONE, priority |-> NONE,
      description |-> <<>>, due |-> 0],
     [status |-> "deleted", project |-> "Y", priority |-> NONE,
      description |-> <<"b", "A", "B">>, due |-> 1]}

FilterTask(u, p, tg) ==
    MkTask(u, p.status, FALSE, p.project, p.priority, tg, p.description, p.due)

\* Four tasks tagged {a}, {b}, {a,b}, {} with any of the profiles.
FilterStores ==
    {<<FilterTask("u1", p1, {"a"}), FilterTask("u2", p2, {"b"}),
       FilterTask("u3", p3, {"a", "b"}), FilterTask("u4", p4, {})>> :
        p1 \in FilterProfiles, p2 \in FilterProfiles,
        p3 \in FilterProfiles, p4 \in FilterProfiles}

Filters ==
    [status : {NONE, "pending", "completed", "deleted"}, project : {NONE, "X"},
     tags : {<<>>, <<"a", "b">>, <<"b">>}, priority : {NONE, "H"},
     description_contains : {<<>>, <<"a", "B">>}, due_before : {NONE, "D2", "bad"},
     due_after : {NONE, "D1"}, limit : {NoLimit, 0, 2}]

InitFilter ==
    /\ store \in FilterStores
    /\ pre = store
    /\ call = NoCall
    /\ ret = NoRet
    /\ phase = "idle"
    /\ cmds = <<>>
    /\ writes = <<>>
    /\ mem = <<>>

filter_tasks ==
    \E f \in Filters :
        Return([NoCall EXCEPT !.op = "filter_tasks", !.filters = f],
               LET r == FilterTasks(store, f)
               IN [ret |-> IF r.raised THEN Raised("ValueError")
                           ELSE [NoRet EXCEPT !.kind = "tasks",
                                              !.tasks = UuidsAt(store, r.tasks, 1)],
                   store |-> store, cmds |-> <<>>, writes |-> <<>>])

NextFilter == filter_tasks \/ list_tasks \/ NextRequest

SpecFilter == InitFilter /\ [][NextFilter]_vars


\* ------------------------------- modify_task and batch_modify_tasks in full

\* The stores the two modify tools are exercised on: the first task pending
\* with any tags among a, b and with or without project, priority and due
\* date; the second pending or completed, with or without tags.
ModifyStores ==
    {<<MkTask("u1", "pending", FALSE, p, pr, tg, <<"A", "b">>, d),
       MkTask("u2", s2, FALSE, "X", NONE, tg2, <<>>, 0)>> :
        p \in {NONE, "X"}, pr \in {NONE, "H"}, tg \in SUBSET {"a", "b"}, d \in {0, 2},
        s2 \in {"pending", "completed"}, tg2 \in {{}, {"b", "c"}}}

\* Update arguments of batch_modify_tasks (lines 422-426).
BatchUpdates ==
    {[NoUpdate EXCEPT !.project = p, !.priority = pr, !.add_tags = a,
                      !.remove_tags = r, !.due = d] :
        p \in {NONE, "", "Y"}, pr \in {NONE, ""},
        a \in {{}, {"a"}, {"a", "b"}}, r \in {{}, {"a"}, {"b"}},
        d \in {NONE, "", "D1", "bad"}}

\* Update arguments of modify_task (lines 254-258).
ModifyUpdates ==
    {[NoUpdate EXCEPT !.description = ds, !.project = p, !.priority = pr,
                      !.has_tags = tg.has, !.tags = tg.tags, !.due = d] :
        ds \in {<<>>, <<"c">>}, p \in {NONE, "", "Y"}, pr \in {NONE, ""},
        tg \in {[has |-> FALSE, tags |-> {}], [has |-> TRUE, tags |-> {}],
                [has |-> TRUE, tags |-> {"b"}]},
        d \in {NONE, "", "D1", "bad"}}

FieldSelections ==
    {[task_ids |-> ids, filters |-> NoFilter] : ids \in {<<1>>, <<2, 1>>, <<3>>}}
    \cup {[task_ids |-> <<>>, filters |-> [NoFilter EXCEPT !.project = "X"]]}

InitModify ==
    /\ store \in ModifyStores
    /\ pre = store
    /\ call = NoCall
    /\ ret = NoRet
    /\ phase = "idle"
    /\ cmds = <<>>
    /\ writes = <<>>
    /\ mem = <<>>

modify_task_fields == CallModifyTask(ModifyUpdates)

batch_modify_tasks_fields == CallBatchModifyTasks(FieldSelections, BatchUpdates)

NextModify == modify_task_fields \/ batch_modify_tasks_fields

SpecModify == InitModify /\ [][NextModify]_vars


\* --------------------------------------------------------------- timestamps

\* A datetime: `set` is FALSE for None; `aware` tells whether it carries a
\* tzinfo; wall is its wall-clock reading and off its UTC offset, both counted
\* in one unit of time.
NoDt == [set |-> FALSE, aware |-> FALSE, wall |-> 0, off |-> 0]

Naive(w) == [set |-> TRUE, aware |-> FALSE, wall |-> w, off |-> 0]

Aware(w, o) == [set |-> TRUE, aware |-> TRUE, wall |-> w, off |-> o]

\* dt.replace(tzinfo=tz): the wall-clock reading is kept.
ReplaceTzinfo(dt, o) == [dt EXCEPT !.aware = TRUE, !.off = o]

\* dt.astimezone(tz) on an aware datetime: the instant is kept.
AsTimezone(dt, o) == [dt EXCEPT !.wall = dt.wall - dt.off + o, !.off = o]

\* The instant an aware datetime denotes; aware datetimes compare by it.
Instant(dt) == dt.wall - dt.off

\* UTC offsets a host can have.
Offsets == {-2, 0, 3}

OffsetText(o) == CASE o = 0 -> "+00:00" [] o = 3 -> "+03:00" [] o = -2 -> "-02:00"
                   [] OTHER -> "+??:??"

\* dt.isoformat() of an aware datetime: wall-clock reading and offset text.
IsoFormat(dt) == [wall |-> dt.wall, zone |-> OffsetText(dt.off)]

\* str.replace('+00:00', 'Z')
ReplaceZ(iso) == IF iso.zone = "+00:00" THEN [iso EXCEPT !.zone = "Z"] ELSE iso

\* The value a timestamp that is None has in the dictionary.
NoIso == [wall |-> 0, zone |-> "None"]

\* TaskModel.to_utc_dict.format_datetime (models.py lines 178-185); local is
\* the offset of datetime.now().astimezone().tzinfo.
FormatDatetime(dt, local) ==
    IF ~dt.set THEN NoIso
    ELSE LET d1 == IF ~dt.aware THEN ReplaceTzinfo(dt, local) ELSE dt
             utc_dt == AsTimezone(d1, local)
         IN ReplaceZ(IsoFormat(utc_dt))

\* task_to_dict.to_utc_iso of taskwarrior_mcp_server_monolithic.py (lines 47-56).
ToUtcIso(dt) ==
    IF ~dt.set THEN NoIso
    ELSE LET d1 == IF ~dt.aware THEN ReplaceTzinfo(dt, 0) ELSE dt
             utc_dt == AsTimezone(d1, 0)
         IN ReplaceZ(IsoFormat(utc_dt))

datetime_fields == {"entry", "modified", "due", "start", "end", "wait", "until"}

\* TaskModel.to_utc_dict: the timestamps of the dictionary.
ToUtcDict(t, local) ==
    [f \in datetime_fields \cup {"annotations"} |->
        IF f = "annotations"
        THEN [k \in 1..Len(t.annotations) |-> FormatDatetime(t.annotations[k], local)]
        ELSE FormatDatetime(t[f], local)]

\* task_to_dict of taskwarrior_mcp_server_monolithic.py: its timestamps.
MonolithicTaskToDict(t) ==
    [f \in datetime_fields \cup {"annotations"} |->
        IF f = "annotations"
        THEN [k \in 1..Len(t.annotations) |-> ToUtcIso(t.annotations[k])]
        ELSE ToUtcIso(t[f])]

\* Mutant of IsOverdue: a due date equal to the evaluation instant counts.
IsOverdueInclusive(t, now) ==
    /\ t.due.set
    /\ LET due_date == IF ~t.due.aware THEN ReplaceTzinfo(t.due, 0) ELSE t.due
           due_date_utc == AsTimezone(due_date, 0)
       IN Instant(due_date_utc) <= now

\* The overdue loop of get_summary (metadata_operations.py lines 93-106): a
\* naive due date gets tzinfo UTC.
IsOverdue(t, now) ==
    /\ t.due.set
    /\ LET due_date == IF ~t.due.aware THEN ReplaceTzinfo(t.due, 0) ELSE t.due
           due_date_utc == AsTimezone(due_date, 0)
       IN Instant(due_date_utc) < now

\* get_summary
GetSummary(st, now) ==
    LET pending == {i \in 1..Len(st) : st[i].status = "pending"}
        completed == {i \in 1..Len(st) : st[i].status = "completed"}
    IN [Ok(NONE) EXCEPT
           !.summary =
               [pending |-> Cardinality(pending), completed |-> Cardinality(completed),
                total |-> Len(st),
                H |-> Cardinality({i \in pending : st[i].priority = "H"}),
                M |-> Cardinality({i \in pending : st[i].priority = "M"}),
                L |-> Cardinality({i \in pending : st[i].priority = "L"}),
                None |-> Cardinality({i \in pending : st[i].priority \notin {"H", "M", "L"}}),
                overdue |-> Cardinality({i \in pending : IsOverdue(st[i], now)})]]

\* Timestamps a record is given: none, a naive one, the same instant read at
\* three offsets, and the instant one unit before it.
DtValues == {NoDt, Naive(10), Aware(10, 0), Aware(13, 3), Aware(8, -2), Aware(9, 0)}

\* A record as tasklib hands it over, with its timestamps.
TimeTask(u, st, pr, dts, anns) ==
    [uuid |-> u, status |-> st, priority |-> pr, entry |-> dts["entry"],
     modified |-> dts["modified"], due |-> dts["due"], start |-> dts["start"],
     end |-> dts["end"], wait |-> dts["wait"], until |-> dts["until"],
     annotations |-> anns]

\* One field holds v1, the others v2.
TimeStamps ==
    {[f \in datetime_fields |-> IF f = a THEN v1 ELSE v2] :
        a \in datetime_fields, v1 \in DtValues, v2 \in DtValues}

TimeStores ==
    {<<TimeTask("u1", "pending", "H", dts, <<dts["entry"], dts["due"]>>),
       TimeTask("u2", s2, NONE, [f \in datetime_fields |-> d2], <<>>)>> :
        dts \in TimeStamps, s2 \in {"pending", "completed"}, d2 \in DtValues}

\* Evaluation instants of get_summary: datetime.now(timezone.utc).
Nows == {9, 10, 11}

InitTime ==
    /\ store \in TimeStores
    /\ pre = store
    /\ call = NoCall
    /\ ret = NoRet
    /\ phase = "idle"
    /\ cmds = <<>>
    /\ writes = <<>>
    /\ mem = <<>>

task_to_dict ==
    \E i \in 1..Len(store), local \in Offsets :
        Return([NoCall EXCEPT !.op = "task_to_dict", !.task_id = i, !.local = local],
               [ret |-> [NoRet EXCEPT !.kind = "dict",
                                      !.dict = ToUtcDict(store[i], local)],
                store |-> store, cmds |-> <<>>, writes |-> <<>>])

monolithic_task_to_dict ==
    \E i \in 1..Len(store), local \in Offsets :
        Return([NoCall EXCEPT !.op = "monolithic_task_to_dict", !.task_id = i,
                              !.local = local],
               [ret |-> [NoRet EXCEPT !.kind = "dict",
                                      !.dict = MonolithicTaskToDict(store[i])],
                store |-> store, cmds |-> <<>>, writes |-> <<>>])

get_summary ==
    \E now \in Nows, local \in Offsets :
        Return([NoCall EXCEPT !.op = "get_summary", !.now = now, !.local = local],
               [ret |-> GetSummary(store, now), store |-> store, cmds |-> <<>>, writes |-> <<>>])

NextTime == task_to_dict \/ monolithic_task_to_dict \/ get_summary

SpecTime == InitTime /\ [][NextTime]_vars


\* ------------------------------------------- TaskModel.from_taskwarrior_task

\* The fields from_taskwarrior_task reads (models.py lines 228-245).
RawFields ==
    {"id", "uuid", "description", "status", "project", "priority", "tags", "urgency",
     "entry", "modified", "due", "start", "end", "wait", "until", "annotations",
     "depends", "recur"}

\* What a raw record holds under a key: a value of the field's type ("ok"), no
\* such key, so that task[field] raises KeyError ("missing"), None ("null"), a
\* value of a type the field does not take, a non-zero number for a text, list
\* or time field and a word for a numeric one ("wrong"), and for id also 0.
Shapes == {"ok", "missing", "null", "wrong", "zero"}

\* The default handed to safe_get for the field (lines 228-245).
SafeGetDefault(f) ==
    CASE f = "description" -> "''"
      [] f = "status" -> "'pending'"
      [] f \in {"tags", "annotations", "depends"} -> "[]"
      [] f = "urgency" -> "0.0"
      [] OTHER -> "None"

\* safe_get (lines 211-221): the value passed on to the constructor.
SafeGet(f, shape) ==
    CASE shape = "missing" -> SafeGetDefault(f)
      [] shape = "null" -> "None"
      [] shape = "zero" -> IF f = "id" THEN "None" ELSE "0"
      [] shape = "wrong" -> "wrong"
      [] OTHER -> "value"

\* The validation of one constructor argument (TaskModel, lines 96-121, and the
\* `before` validators, lines 133-169): the field of the model, or "raise".
\* The `before` validators of tags and depends turn None and any non-list
\* into []; convert_annotations returns [] for a falsy value and iterates
\* anything else; description, status and urgency are not Optional.
Validated(f, v) ==
    CASE f \in {"tags", "depends"} -> IF v \in {"None", "wrong", "0"} THEN "[]" ELSE v
      [] f = "annotations" -> IF v \in {"None", "0"} THEN "[]"
                              ELSE IF v = "wrong" THEN "raise" ELSE v
      [] f \in {"description", "status", "urgency"} ->
            IF v \in {"None", "wrong"} THEN "raise"
            ELSE IF v = "0" THEN (IF f = "urgency" THEN "0.0" ELSE "raise") ELSE v
      [] OTHER -> IF v \in {"wrong", "0"} THEN "raise" ELSE v

\* TaskModel.from_taskwarrior_task on the raw record `raw` (field -> shape).
FromTaskwarriorTask(raw) ==
    LET model == [f \in RawFields |-> Validated(f, SafeGet(f, raw[f]))]
    IN IF \E f \in RawFields : model[f] = "raise"
       THEN Raised("ValidationError")
       ELSE [NoRet EXCEPT !.kind = "model", !.dict = model]

\* Raw records: at most two fields are not of the field's own type.
RawRecords ==
    {[f \in RawFields |-> IF f = a THEN s1 ELSE IF f = b THEN s2 ELSE "ok"] :
        a \in RawFields, b \in RawFields, s1 \in Shapes \ {"zero"},
        s2 \in Shapes \ {"zero"}}
    \cup {[f \in RawFields |-> IF f = "id" THEN "zero" ELSE IF f = b THEN s2 ELSE "ok"] :
            b \in RawFields \ {"id"}, s2 \in Shapes \ {"zero"}}

InitRaw ==
    /\ store \in {<<r>> : r \in RawRecords}
    /\ pre = store
    /\ call = NoCall
    /\ ret = NoRet
    /\ phase = "idle"
    /\ cmds = <<>>
    /\ writes = <<>>
    /\ mem = <<>>

from_taskwarrior_task ==
    Return([NoCall EXCEPT !.op = "from_taskwarrior_task"],
           [ret |-> FromTaskwarriorTask(store[1]), store |-> store, cmds |-> <<>>, writes |-> <<>>])

NextRaw == from_taskwarrior_task

SpecRaw == InitRaw /\ [][NextRaw]_vars


\* ----------------------------------- two batch_modify_tasks calls at once

\* Two invocations of batch_modify_tasks(task_ids=[1], ...) served by two
\* server processes over one Taskwarrior store.  Nothing in lines 431-503
\* takes a lock: an invocation reads the record (line 435), assigns the new
\* fields to its own Task object (lines 467-493) and saves it (line 496), and
\* the other invocation may run between any two of these steps.
Invocations == {1, 2}

TaskFields == {"project", "priority", "tags", "due"}

\* Mutant of SaveTask: the tags are merged into the stored tags (those the
\* invocation added are added, those it removed are removed).
SaveTaskMergingTags(rec, orig, task) ==
    [f \in DOMAIN rec |->
        IF f = "tags" THEN (rec.tags \cup (task.tags \ orig.tags)) \ (orig.tags \ task.tags)
        ELSE IF f \in TaskFields /\ task[f] # orig[f] THEN task[f]
        ELSE rec[f]]

\* task.save() (line 496) on a task read as orig and now holding task: the
\* store record rec gets the value of every field the invocation changed
\* (`task <uuid> modify` with the modified fields, the tags as one list).
SaveTask(rec, orig, task) ==
    [f \in DOMAIN rec |-> IF f \in TaskFields /\ task[f] # orig[f] THEN task[f] ELSE rec[f]]

\* Update arguments of the two invocations.
RaceUpdates ==
    {[NoUpdate EXCEPT !.project = p, !.add_tags = a, !.remove_tags = r, !.due = d] :
        p \in {NONE, "Y", "Z"}, a \in {{}, {"a"}, {"b"}}, r \in {{}, {"c"}},
        d \in {NONE, "bad"}}

\* The store holds one pending record.
RaceStores ==
    {<<MkTask("u1", "pending", FALSE, "X", NONE, tg, <<"A", "b">>, 0)>> : tg \in {{}, {"c"}}}

\* An invocation before its first step: pc is the step it is at, upd its
\* arguments, orig the record as it read it, task its Task object, saved the
\* rank of its save among the saves (0: none), outcome the list its record
\* ended in.
Invocation(u, t) ==
    [pc |-> "get", upd |-> u, orig |-> t, task |-> t, saved |-> 0, outcome |-> NONE]

InitRace ==
    /\ store \in RaceStores
    /\ pre = store
    /\ call = NoCall
    /\ ret = NoRet
    /\ phase = "idle"
    /\ cmds = <<>>
    /\ writes = <<>>
    /\ \E u1 \in RaceUpdates, u2 \in RaceUpdates :
           mem = [n \in Invocations |->
                     Invocation(IF n = 1 THEN u1 ELSE u2,
                                MkTask(NONE, "pending", FALSE, NONE, NONE, {}, <<>>, 0))]

\* Line 435: tw.tasks.get(id=task_id) reads the record as the store has it now.
tasks_get ==
    \E n \in Invocations :
        /\ mem[n].pc = "get"
        /\ mem' = [mem EXCEPT ![n].pc = "assign", ![n].orig = store[GetById(store, 1)],
                              ![n].task = store[GetById(store, 1)]]
        /\ UNCHANGED <<store, pre, call, ret, phase, cmds, writes>>

\* Lines 467-493: the fields are assigned to the invocation's Task object; a
\* due string that does not parse sends the record to errors (lines 502-503).
assign_fields ==
    \E n \in Invocations :
        /\ mem[n].pc = "assign"
        /\ LET m == BatchModifyFields(mem[n].task, mem[n].upd)
           IN mem' = IF m.failed
                     THEN [mem EXCEPT ![n].pc = "done", ![n].outcome = "errors"]
                     ELSE [mem EXCEPT ![n].pc = "save", ![n].task = m.task]
        /\ UNCHANGED <<store, pre, call, ret, phase, cmds, writes>>

\* Lines 496-501: task.save(), then the entry of results.
task_save ==
    \E n \in Invocations :
        /\ mem[n].pc = "save"
        /\ store' = [store EXCEPT ![1] = SaveTask(store[1], mem[n].orig, mem[n].task)]
        /\ writes' = Append(writes, store[1].uuid)
        /\ mem' = [mem EXCEPT ![n].pc = "done", ![n].outcome = "results",
                              ![n].saved = Len(writes) + 1]
        /\ UNCHANGED <<pre, call, ret, phase, cmds>>

NextRace == tasks_get \/ assign_fields \/ task_save

SpecRace == InitRace /\ [][NextRace]_vars


\* ------------------------------------------------------------------ claims

Range(seq) == {seq[k] : k \in 1..Len(seq)}

Returned(op) == phase = "returned" /\ call.op = op

\* No task of store st has numeric id n.
NoTaskWithId(st, n) == \A i \in 1..Len(st) : st[i].id # n

\* No task of store st has uuid u.
NoTaskWithUuid(st, u) == \A i \in 1..Len(st) : st[i].uuid # u

NotFoundError(n) == [task_id |-> n, kind |-> "not found"]

\* Positions of the tasks that were pending, and named in the id list, when
\* the call began.
NamedPending == {i \in 1..Len(pre) : pre[i].status = "pending" /\ pre[i].id \in Range(call.task_ids)}

\* C1: batch_complete_by_ids with an id list in which some ids resolve to no
\* task: every task that was pending and named when the call began is the same
\* task, completed, when it returns, wherever the missing ids stand in the list;
\* results has one entry per completed task (naming its id), errors has one
\* 'not found' entry for each occurrence of a missing id, and success is false.
C1_PartialBatchComplete ==
    (Returned("batch_complete_by_ids")
     /\ \E k \in 1..Len(call.task_ids) : NoTaskWithId(pre, call.task_ids[k]))
    =>
    /\ ret.kind = "batch"
    /\ ret.success = FALSE
    /\ \A i \in NamedPending :
          /\ store[i].uuid = pre[i].uuid
          /\ store[i].status = "completed"
          /\ Cardinality({k \in 1..Len(ret.results) : ret.results[k].task_id = pre[i].id}) = 1
    /\ Len(ret.results) = Cardinality(NamedPending)
    /\ \A x \in {n \in Range(call.task_ids) : NoTaskWithId(pre, n)} :
          Cardinality({k \in 1..Len(ret.errors) : ret.errors[k] = NotFoundError(x)})
              = Cardinality({k \in 1..Len(call.task_ids) : call.task_ids[k] = x})

\* Two pending tasks around a missing id: both end completed.
C1_Witness ==
    /\ Returned("batch_complete_by_ids")
    /\ call.task_ids = <<1, 3, 2>>
    /\ \A i \in 1..Len(pre) : pre[i].status = "pending"
    /\ \A i \in 1..Len(store) : store[i].status = "completed"
    /\ Len(ret.results) = 2
    /\ ret.errors = <<NotFoundError(3)>>

\* The tools that take both task_id and uuid.
IdUuidOps ==
    {"get_task", "complete_task", "uncomplete_task", "delete_task", "start_task",
     "stop_task"}

\* C2: a single-task tool given both task_id and uuid, naming two different
\* records, reads or mutates the record with that uuid and never the one with
\* that numeric id.
C2_UuidPrecedence ==
    (/\ phase = "returned"
     /\ call.op \in IdUuidOps
     /\ call.task_id # 0
     /\ Truthy(call.uuid)
     /\ \E i, j \in 1..Len(pre) :
           i # j /\ pre[i].id = call.task_id /\ pre[j].uuid = call.uuid)
    =>
    /\ ret.task \in {NONE, call.uuid}
    /\ \A i \in 1..Len(pre) : store[i] # pre[i] => pre[i].uuid = call.uuid

SingleOps ==
    {"get_task", "complete_task", "uncomplete_task", "modify_task", "delete_task",
     "start_task", "stop_task"}

\* The call names at least one identifier and none it names matches a record.
MatchesNoRecord ==
    /\ call.task_id # 0 \/ Truthy(call.uuid)
    /\ call.task_id # 0 => NoTaskWithId(pre, call.task_id)
    /\ Truthy(call.uuid) => NoTaskWithUuid(pre, call.uuid)

\* C3: a single-task tool called with an identifier that matches no record
\* returns {success: false, error: '... not found'}, raises nothing past the
\* tool boundary and leaves the store as it was.
C3_NotFoundStructured ==
    (phase = "returned" /\ call.op \in SingleOps /\ MatchesNoRecord)
    =>
    /\ ret.kind = "structured"
    /\ ret.success = FALSE
    /\ ret.error = "not found"
    /\ store = pre

ByIdsOps ==
    {"batch_complete_by_ids", "batch_uncomplete_by_ids", "batch_delete_by_ids",
     "batch_start_by_ids", "batch_stop_by_ids"}

ByFilterOps ==
    {"batch_complete_by_filter", "batch_uncomplete_by_filter", "batch_delete_by_filter"}

\* The filter predicates as section 4.2 of the specification states them.
InScope(t, f) == Truthy(f.status) => t.status = f.status

Satisfies(t, f) ==
    /\ Truthy(f.project) => t.project = f.project
    /\ Truthy(f.priority) => t.priority = f.priority
    /\ f.tags # <<>> => Range(f.tags) \cap t.tags # {}
    /\ f.description_contains # <<>> =>
          Contains(Lower(t.description), Lower(f.description_contains))
    /\ (Truthy(f.due_before) /\ t.due # 0) => t.due < ParseIso(f.due_before)
    /\ (Truthy(f.due_after) /\ t.due # 0) => t.due > ParseIso(f.due_after)

\* How many records a batch call had selected when its loop began.
Candidates ==
    IF call.op \in ByIdsOps THEN Len(call.task_ids)
    ELSE IF call.task_ids # <<>>
    THEN Cardinality({k \in 1..Len(call.task_ids) : ~NoTaskWithId(pre, call.task_ids[k])})
    ELSE LET m == Cardinality({i \in 1..Len(pre) :
                       InScope(pre[i], call.filters) /\ Satisfies(pre[i], call.filters)})
         IN IF TruthyInt(call.filters.limit) /\ m > call.filters.limit
            THEN call.filters.limit ELSE m

\* C4: a batch tool that got past candidate selection returns success = true
\* exactly when errors is empty, a *_count equal to the length of results, and
\* both lists in full: every selected record has its entry in one of them.
C4_BatchAccounting ==
    (phase = "returned" /\ ret.kind = "batch")
    =>
    /\ ret.success <=> (ret.errors = <<>>)
    /\ ret.count = Len(ret.results)
    /\ Len(ret.results) + Len(ret.errors) = Candidates

\* A batch in which one record succeeded and another failed.
C4_Witness ==
    /\ phase = "returned"
    /\ ret.kind = "batch"
    /\ Len(ret.results) = 1
    /\ Len(ret.errors) = 2
    /\ ~ret.success

\* C5: a batch tool invoked with a list of task ids puts exactly one entry per
\* supplied id into results or errors; an id that resolves to no record gets an
\* error entry naming it and makes success false.
C5_OneEntryPerId ==
    (/\ phase = "returned"
     /\ call.op \in ByIdsOps \cup {"batch_modify_tasks"}
     /\ call.task_ids # <<>>)
    =>
    /\ ret.kind = "batch"
    /\ Len(ret.results) + Len(ret.errors) = Len(call.task_ids)
    /\ \A k \in 1..Len(call.task_ids) :
          NoTaskWithId(pre, call.task_ids[k]) =>
              /\ \E e \in 1..Len(ret.errors) : ret.errors[e].task_id = call.task_ids[k]
              /\ ~ret.success

\* C6: a batch tool called with neither task ids nor any filter criterion
\* returns a validation failure and mutates no record.
C6_NoSelectionRejected ==
    (/\ phase = "returned"
     /\ call.op \in ByFilterOps \cup {"batch_modify_tasks"}
     /\ call.task_ids = <<>>
     /\ call.filters = NoFilter)
    =>
    /\ ret.kind = "structured"
    /\ ret.success = FALSE
    /\ ret.error = "validation"
    /\ store = pre

\* C7: purge_deleted_tasks returns {success: false, error: ...} for every
\* failure of the store, the listing of the deleted records included, and
\* never raises past the tool boundary.
C7_PurgeNeverRaises ==
    Returned("purge_deleted_tasks")
    =>
    /\ ret.kind = "structured"
    /\ call.ext = "list_fails" => ~ret.success

\* The filter carries a date bound that does not parse.
BadBound(f) ==
    \/ Truthy(f.due_before) /\ ParseIso(f.due_before) < 0
    \/ Truthy(f.due_after) /\ ParseIso(f.due_after) < 0

\* C8: with a due_before or due_after that cannot be parsed, filter_tasks
\* reports an error and every batch tool built on it returns a failure and
\* mutates no record, whatever the store holds.
C8_BadBoundReported ==
    (/\ phase = "returned"
     /\ call.op \in ByFilterOps \cup {"batch_modify_tasks", "filter_tasks"}
     /\ call.task_ids = <<>>
     /\ BadBound(call.filters))
    =>
    /\ ret.kind \in {"structured", "raised"}
    /\ ret.success = FALSE
    /\ store = pre

\* C9: filter_tasks returns exactly the records of the selected status scope
\* that satisfy every predicate that is set (project, priority, any-of tags,
\* case-insensitive description substring, due strictly inside the bounds for a
\* record that has a due date), each once, when no limit cuts the list.
C9_FilterExact ==
    (Returned("filter_tasks") /\ ret.kind = "tasks" /\ call.filters.limit = NoLimit)
    =>
    /\ Range(ret.tasks) =
          {pre[i].uuid : i \in {j \in 1..Len(pre) :
              InScope(pre[j], call.filters) /\ Satisfies(pre[j], call.filters)}}
    /\ Cardinality(Range(ret.tasks)) = Len(ret.tasks)

\* tags=[a,b] with project=X: of the tasks tagged {a}, {b}, {a,b}, {} the first
\* three match the tags, and only those of them in project X are returned.
C9_Witness ==
    /\ Returned("filter_tasks")
    /\ call.filters = [NoFilter EXCEPT !.tags = <<"a", "b">>, !.project = "X"]
    /\ pre[1].project = "X" /\ pre[2].project # "X"
    /\ pre[3].project = "X" /\ pre[4].project = "X"
    /\ ret.tasks = <<"u1", "u3">>

\* C10 as claimed: a returned record has every field a set predicate names,
\* the due date included.
C10_AbsentFieldFails ==
    (Returned("filter_tasks") /\ ret.kind = "tasks")
    =>
    \A i \in 1..Len(pre) :
        pre[i].uuid \in Range(ret.tasks) =>
            /\ Truthy(call.filters.project) => pre[i].project # NONE
            /\ Truthy(call.filters.priority) => pre[i].priority # NONE
            /\ call.filters.tags # <<>> => pre[i].tags # {}
            /\ call.filters.description_contains # <<>> => pre[i].description # <<>>
            /\ Truthy(call.filters.due_before) => pre[i].due # 0
            /\ Truthy(call.filters.due_after) => pre[i].due # 0

\* C10 amended: a record with no project, priority, tags or description fails
\* the predicate that names the field; a record with no due date is not failed
\* by due_before or due_after, which are skipped for it.
C10_AbsentFieldFailsButDue ==
    (Returned("filter_tasks") /\ ret.kind = "tasks")
    =>
    \A i \in 1..Len(pre) :
        /\ pre[i].uuid \in Range(ret.tasks) =>
              /\ Truthy(call.filters.project) => pre[i].project # NONE
              /\ Truthy(call.filters.priority) => pre[i].priority # NONE
              /\ call.filters.tags # <<>> => pre[i].tags # {}
              /\ call.filters.description_contains # <<>> => pre[i].description # <<>>
        /\ (/\ pre[i].due = 0
            /\ call.filters.limit = NoLimit
            /\ InScope(pre[i], call.filters)
            /\ Satisfies(pre[i], [call.filters EXCEPT !.due_before = NONE, !.due_after = NONE]))
           => pre[i].uuid \in Range(ret.tasks)

\* Under tags=[b] and due_before: the record with no tags is left out, the
\* record tagged {b} that has no due date is returned.
C10_Witness ==
    /\ Returned("filter_tasks")
    /\ ret.kind = "tasks"
    /\ call.filters = [NoFilter EXCEPT !.tags = <<"b">>, !.due_before = "D2"]
    /\ pre[2].due = 0
    /\ "u2" \in Range(ret.tasks)
    /\ "u4" \notin Range(ret.tasks)

\* The records a filter_tasks or list_tasks call selects when no limit is set,
\* in store iteration order.
RECURSIVE MatchingFrom(_)
MatchingFrom(i) ==
    IF i > Len(pre) THEN <<>>
    ELSE (IF /\ InScope(pre[i], call.filters)
             /\ Satisfies(pre[i], call.filters)
          THEN <<pre[i].uuid>> ELSE <<>>)
         \o MatchingFrom(i + 1)

\* C11: with a limit that is set (0 included), filter_tasks and list_tasks
\* return the first min(limit, number of matches) matching records in store
\* iteration order, never more than limit of them.
C11_LimitBounds ==
    (/\ phase = "returned"
     /\ call.op \in {"filter_tasks", "list_tasks"}
     /\ ret.kind \in {"tasks", "structured"}
     /\ call.filters.limit # NoLimit)
    =>
    /\ Len(ret.tasks) <= call.filters.limit
    /\ ret.tasks = SubSeq(MatchingFrom(1), 1, Len(ret.tasks))
    /\ Len(ret.tasks) = IF Len(MatchingFrom(1)) < call.filters.limit
                        THEN Len(MatchingFrom(1)) ELSE call.filters.limit

\* C11 for the limits the code honours: a limit of at least 1.
C11_PositiveLimitBounds ==
    (/\ phase = "returned"
     /\ call.op \in {"filter_tasks", "list_tasks"}
     /\ ret.kind \in {"tasks", "structured"}
     /\ call.filters.limit >= 1)
    =>
    /\ Len(ret.tasks) <= call.filters.limit
    /\ ret.tasks = SubSeq(MatchingFrom(1), 1, Len(ret.tasks))
    /\ Len(ret.tasks) = IF Len(MatchingFrom(1)) < call.filters.limit
                        THEN Len(MatchingFrom(1)) ELSE call.filters.limit

\* Three records match under limit 2: the first two in store order come back.
C11_Witness ==
    /\ Returned("filter_tasks")
    /\ call.filters.limit = 2
    /\ Len(MatchingFrom(1)) = 3
    /\ ret.tasks = SubSeq(MatchingFrom(1), 1, 2)

\* Position in pre of the record an uncomplete_task call names (0: none).
UncompleteTarget ==
    IF Truthy(call.uuid) /\ ~NoTaskWithUuid(pre, call.uuid) THEN GetByUuid(pre, call.uuid)
    ELSE IF call.task_id # 0 THEN GetById(pre, call.task_id) ELSE 0

\* Positions in pre of the records a batch_uncomplete_by_filter call selects.
UncompleteSelected ==
    {i \in 1..Len(pre) : InScope(pre[i], call.filters) /\ Satisfies(pre[i], call.filters)}

NotCompletedError(n) == [task_id |-> n, kind |-> "not completed"]

\* C12: uncomplete applied to a record that is not completed leaves the record
\* as it was and reports a 'not completed' failure for it; in the batch forms
\* the loop goes on, and every selected record that was completed ends pending.
C12_UncompletePrecondition ==
    /\ (Returned("uncomplete_task") /\ UncompleteTarget # 0
         /\ pre[UncompleteTarget].status # "completed")
        => (ret.kind = "structured" /\ ~ret.success /\ ret.error = "not completed"
            /\ store = pre)
    /\ (Returned("batch_uncomplete_by_filter") /\ ret.kind = "batch"
         /\ ~TruthyInt(call.filters.limit))
        => \A i \in UncompleteSelected :
              IF pre[i].status = "completed"
              THEN store[i] = WithStatus(pre[i], "pending")
              ELSE /\ store[i] = pre[i]
                   /\ NotCompletedError(pre[i].id) \in Range(ret.errors)
                   /\ ~ret.success
    /\ Returned("batch_uncomplete_by_ids")
        => \A k \in 1..Len(call.task_ids) :
              LET i == UncompleteLookup(pre, call.task_uuids, call.task_ids[k])
              IN i # 0 =>
                    IF pre[i].status = "completed"
                    THEN store[i] = WithStatus(pre[i], "pending")
                    ELSE /\ store[i] = pre[i]
                         /\ NotCompletedError(call.task_ids[k]) \in Range(ret.errors)
                         /\ ~ret.success

\* A pending record ahead of a completed one in the same filter batch: the
\* first is refused and untouched, the second is marked pending.
C12_Witness ==
    /\ Returned("batch_uncomplete_by_filter")
    /\ call.filters = NoFilter
    /\ pre[1].status = "pending" /\ pre[2].status = "completed"
    /\ store[1] = pre[1] /\ store[2].status = "pending"
    /\ ret.errors = <<NotCompletedError(1)>>
    /\ Len(ret.results) = 1

\* The same through batch_uncomplete_by_ids, the completed record named by uuid.
C12_WitnessByIds ==
    /\ Returned("batch_uncomplete_by_ids")
    /\ call.task_ids = <<1, 3>>
    /\ pre[1].status = "pending" /\ pre[2].status = "completed"
    /\ store[1] = pre[1] /\ store[2].status = "pending"
    /\ ret.errors = <<NotCompletedError(1)>>

\* Positions in pre of the records a batch_modify_tasks call selects.
ModifySelected ==
    IF call.task_ids # <<>> THEN {i \in 1..Len(pre) : pre[i].id \in Range(call.task_ids)}
    ELSE {i \in 1..Len(pre) : InScope(pre[i], call.filters) /\ Satisfies(pre[i], call.filters)}

\* The record at position i was modified: the call reports it in results.
ModifiedBy(i) == \E k \in 1..Len(ret.results) : ret.results[k].task_id = pre[i].id

\* C13: every record batch_modify_tasks modifies with add_tags = A and/or
\* remove_tags = R ends with the tag set (T \cup A) \ R, T being its tag set
\* before: other tags are kept, a tag in both A and R ends absent.
C13_TagAlgebra ==
    (Returned("batch_modify_tasks") /\ ret.kind = "batch")
    =>
    \A i \in ModifySelected :
        ModifiedBy(i) =>
            store[i].tags = (pre[i].tags \cup call.upd.add_tags) \ call.upd.remove_tags

\* Tags {b} under add {a, b} and remove {a}: b is kept, a ends absent.
C13_Witness ==
    /\ Returned("batch_modify_tasks")
    /\ call.task_ids = <<1>>
    /\ call.upd.add_tags = {"a", "b"} /\ call.upd.remove_tags = {"a"}
    /\ pre[1].tags = {"b"}
    /\ ModifiedBy(1)
    /\ store[1].tags = {"b"}

\* The update's due date is absent, empty or parses.
DueAccepted(u) == u.due \in {NONE, ""} \/ ParseIso(u.due) >= 0

\* C14: in batch_modify_tasks, adding tags the record already has and removing
\* tags it does not have leaves its tag set as it was and reports the record in
\* results, not in errors; applying the same call to the store it left changes
\* nothing.
C14_TagNoOp ==
    (Returned("batch_modify_tasks") /\ ret.kind = "batch" /\ DueAccepted(call.upd))
    =>
    /\ \A i \in ModifySelected :
          (/\ call.upd.add_tags \cup call.upd.remove_tags # {}
           /\ call.upd.add_tags \subseteq pre[i].tags
           /\ call.upd.remove_tags \cap pre[i].tags = {})
          => /\ store[i].tags = pre[i].tags
             /\ ModifiedBy(i)
             /\ ret.errors = <<>>
    /\ call.task_ids # <<>> =>
          BatchModify(store, call.task_ids, call.filters, call.upd).store = store

\* Tags {a} under add {a} and remove {b}: nothing changes, the record is in
\* results and the call succeeds.
C14_Witness ==
    /\ Returned("batch_modify_tasks")
    /\ call.task_ids = <<1>>
    /\ call.upd = [NoUpdate EXCEPT !.add_tags = {"a"}, !.remove_tags = {"b"}]
    /\ pre[1].tags = {"a"}
    /\ store = pre
    /\ ret.success /\ Len(ret.results) = 1

\* Positions in pre of the records a modify_task or batch_modify_tasks call
\* modified and saved.
Saved ==
    IF call.op = "modify_task"
    THEN {i \in 1..Len(pre) : ret.success /\ pre[i].id = call.task_id}
    ELSE {i \in ModifySelected : ret.kind = "batch" /\ ModifiedBy(i)}

\* The stored value a scalar field has after an update with argument v.
AfterScalar(old, v) == IF v = NONE THEN old ELSE IF v = "" THEN NONE ELSE v

AfterDue(old, v) == IF v = NONE THEN old ELSE IF v = "" THEN 0 ELSE ParseIso(v)

\* C15: in modify_task and batch_modify_tasks a scalar update field (project,
\* priority, due) left out keeps the stored value, the same field given as an
\* empty string clears it, and nothing the call does not name is altered.
C15_AbsentKeepsEmptyClears ==
    (phase = "returned" /\ call.op \in {"modify_task", "batch_modify_tasks"})
    =>
    \A i \in 1..Len(pre) :
        IF i \in Saved
        THEN /\ store[i].project = AfterScalar(pre[i].project, call.upd.project)
             /\ store[i].priority = AfterScalar(pre[i].priority, call.upd.priority)
             /\ store[i].due = AfterDue(pre[i].due, call.upd.due)
             /\ call.upd.description = <<>> => store[i].description = pre[i].description
             /\ (~call.upd.has_tags /\ call.upd.add_tags \cup call.upd.remove_tags = {})
                   => store[i].tags = pre[i].tags
             /\ store[i].uuid = pre[i].uuid /\ store[i].id = pre[i].id
             /\ store[i].status = pre[i].status /\ store[i].active = pre[i].active
        ELSE store[i] = pre[i]

\* One modify_task call that leaves out the project and gives an empty due
\* date: the project stays, the due date is cleared.
C15_Witness ==
    /\ Returned("modify_task")
    /\ call.task_id = 1
    /\ call.upd = [NoUpdate EXCEPT !.due = ""]
    /\ pre[1].project = "X" /\ pre[1].due = 2
    /\ store[1].project = "X" /\ store[1].due = 0
    /\ ret.success

\* batch_modify_tasks with an empty project: the project is cleared, priority
\* and due date stay.
C15_WitnessBatch ==
    /\ Returned("batch_modify_tasks")
    /\ call.task_ids = <<1>>
    /\ call.upd = [NoUpdate EXCEPT !.project = ""]
    /\ pre[1].project = "X" /\ pre[1].priority = "H" /\ pre[1].due = 2
    /\ store[1].project = NONE /\ store[1].priority = "H" /\ store[1].due = 2

\* How many deleted records the store held when the call began.
DeletedBefore == Cardinality({i \in 1..Len(pre) : pre[i].status = "deleted"})

\* C16: purge_deleted_tasks on a store with no deleted record returns success
\* with purged_count = 0, runs no purge command and leaves the store as it was.
C16_PurgeNothing ==
    (Returned("purge_deleted_tasks") /\ DeletedBefore = 0 /\ call.ext # "list_fails")
    =>
    /\ ret.kind = "structured"
    /\ ret.success
    /\ ret.purged_count = 0
    /\ cmds = <<>>
    /\ store = pre

\* Purge is called on two live records while the purge command would have
\* been rejected: nothing is run, the result is the success of 0.
C16_Witness ==
    /\ Returned("purge_deleted_tasks")
    /\ call.ext = "rejected"
    /\ Len(pre) = 2 /\ DeletedBefore = 0
    /\ ret.success /\ ret.purged_count = 0
    /\ cmds = <<>>

\* C17: purge_deleted_tasks with N > 0 deleted records and a purge command
\* that succeeds returns success with purged_count = N, the number of deleted
\* records counted before the command ran.
C17_PurgeCount ==
    (Returned("purge_deleted_tasks") /\ DeletedBefore > 0 /\ call.ext = "ok")
    =>
    /\ ret.kind = "structured"
    /\ ret.success
    /\ ret.purged_count = DeletedBefore
    /\ cmds = <<PurgeCmd>>

\* Both records deleted: the purge reports 2 and the store is empty.
C17_Witness ==
    /\ Returned("purge_deleted_tasks")
    /\ call.ext = "ok"
    /\ DeletedBefore = 2
    /\ ret.success /\ ret.purged_count = 2
    /\ store = <<>>

\* The 'nothing to purge' result.
NothingToPurge == [Ok(NONE) EXCEPT !.purged_count = 0]

\* C18: with deleted records present, purge_deleted_tasks tells three outcomes
\* of the purge command apart: success gives success = true with purged_count;
\* a non-zero exit gives success = false with the store's error text and
\* found_deleted_count and no purged_count; the timeout gives success = false
\* with a timed-out error, which is neither a success nor 'nothing to purge'.
C18_PurgeOutcomes ==
    (Returned("purge_deleted_tasks") /\ DeletedBefore > 0)
    =>
    /\ call.ext = "ok" =>
          (ret.success /\ ret.purged_count = DeletedBefore
           /\ ret.found_deleted_count = -1)
    /\ call.ext = "rejected" =>
          (~ret.success /\ ret.kind = "structured" /\ ret.error = "purge failed"
           /\ ret.found_deleted_count = DeletedBefore /\ ret.purged_count = -1)
    /\ call.ext \in {"timeout", "timeout_purged"} =>
          (~ret.success /\ ret.kind = "structured" /\ ret.error = "timed out"
           /\ ret.purged_count = -1 /\ ret # NothingToPurge)

\* The purge command is rejected with one deleted record present.
C18_Witness ==
    /\ Returned("purge_deleted_tasks")
    /\ call.ext = "rejected"
    /\ DeletedBefore = 1
    /\ ~ret.success /\ ret.found_deleted_count = 1 /\ ret.purged_count = -1
    /\ store = pre

C20_RestoredStatus ==
    (Returned("restore_task") /\ ret.success)
    =>
    \A i \in 1..Len(store) :
        store[i].uuid = ret.task => store[i].status = NewStatus(call.status)

\* The timestamps of a returned dictionary: those of the fields and those of
\* the annotations.
DictStamps(d) ==
    {d[f] : f \in datetime_fields} \cup {d["annotations"][k] : k \in 1..Len(d["annotations"])}

\* C21: for every record and every local offset, each timestamp that is not
\* None in the dictionary of to_utc_dict / task_to_dict is at zero UTC offset
\* and its string ends in 'Z'.
C21_WireTimestampsUtc ==
    Returned("task_to_dict")
    =>
    \A x \in DictStamps(ret.dict) : x # NoIso => x.zone = "Z"

\* C21 on a host whose local offset is zero.
C21_WireTimestampsUtcAtZero ==
    (Returned("task_to_dict") /\ call.local = 0)
    =>
    \A x \in DictStamps(ret.dict) : x # NoIso => x.zone = "Z"

\* The offset an ISO-8601 offset text denotes.
ZoneOffset(z) == CASE z = "+03:00" -> 3 [] z = "-02:00" -> -2 [] OTHER -> 0

\* The instant a timestamp read from the store denotes when a naive one is
\* local wall-clock time.
InstantLocal(dt, local) == IF dt.aware THEN dt.wall - dt.off ELSE dt.wall - local

\* C22: every component that interprets a timestamp read from the store (the
\* two serializers and the overdue count of get_summary) takes a naive
\* timestamp as local wall-clock time: the serialized value denotes the instant
\* wall - local, and the overdue count compares that instant.
C22_NaiveIsLocal ==
    /\ (phase = "returned" /\ call.op \in {"task_to_dict", "monolithic_task_to_dict"})
        => \A f \in datetime_fields :
              (pre[call.task_id][f].set /\ ~pre[call.task_id][f].aware)
              => ret.dict[f].wall - ZoneOffset(ret.dict[f].zone)
                    = InstantLocal(pre[call.task_id][f], call.local)
    /\ Returned("get_summary")
        => ret.summary.overdue =
              Cardinality({i \in 1..Len(pre) :
                  /\ pre[i].status = "pending" /\ pre[i].due.set
                  /\ InstantLocal(pre[i].due, call.local) < call.now})

\* C22 for to_utc_dict alone.
C22_NaiveIsLocalInToUtcDict ==
    Returned("task_to_dict")
    => \A f \in datetime_fields :
          (pre[call.task_id][f].set /\ ~pre[call.task_id][f].aware)
          => ret.dict[f].wall - ZoneOffset(ret.dict[f].zone)
                = InstantLocal(pre[call.task_id][f], call.local)

\* C23: get_summary counts a pending task as overdue exactly when its due
\* instant is strictly before the evaluation instant; a due date equal to it,
\* and a task without due date, are not counted.  Stated for due dates that
\* carry their offset, as the store hands them over.
C23_OverdueStrict ==
    (Returned("get_summary")
     /\ \A i \in 1..Len(pre) : pre[i].due.set => pre[i].due.aware)
    =>
    ret.summary.overdue =
        Cardinality({i \in 1..Len(pre) :
            /\ pre[i].status = "pending" /\ pre[i].due.set
            /\ pre[i].due.wall - pre[i].due.off < call.now})

\* Evaluated at instant 10: the task due at 13 (+03:00), which is instant 10,
\* is not counted, the task due at instant 9 is.
C23_Witness ==
    /\ Returned("get_summary")
    /\ call.now = 10
    /\ pre[1].status = "pending" /\ pre[1].due = Aware(13, 3)
    /\ pre[2].status = "pending" /\ pre[2].due = Aware(9, 0)
    /\ ret.summary.overdue = 1

\* The documented default of a field of TaskModel.
DocumentedDefault(f) ==
    CASE f = "description" -> "''"
      [] f = "status" -> "'pending'"
      [] f \in {"tags", "annotations", "depends"} -> "[]"
      [] f = "urgency" -> "0.0"
      [] OTHER -> "None"

\* C24: from_taskwarrior_task raises for no raw record: a missing key, a null
\* value or a value of the wrong type yields the field's documented default,
\* and an id of 0 or None becomes None.
C24_FromRawNeverRaises ==
    Returned("from_taskwarrior_task")
    =>
    /\ ret.kind = "model"
    /\ \A f \in RawFields :
          pre[1][f] \in {"missing", "null", "wrong"} => ret.dict[f] = DocumentedDefault(f)
    /\ pre[1]["id"] \in {"zero", "null"} => ret.dict["id"] = "None"

\* C24 for what safe_get does catch: a missing key yields the documented
\* default and an id of 0 or None becomes None, when no field holds a null or
\* a value of the wrong type.
C24_MissingKeyDefaults ==
    (Returned("from_taskwarrior_task")
     /\ \A f \in RawFields : pre[1][f] \in {"ok", "missing", "zero"}
                              \/ (f = "id" /\ pre[1][f] = "null"))
    =>
    /\ ret.kind = "model"
    /\ \A f \in RawFields : pre[1][f] = "missing" => ret.dict[f] = DocumentedDefault(f)
    /\ pre[1]["id"] \in {"zero", "null"} => ret.dict["id"] = "None"

\* No deleted record of pre has the uuid, or the numeric id, the call names.
NoDeletedWithUuid ==
    \A i \in 1..Len(pre) : pre[i].status = "deleted" => pre[i].uuid # call.uuid

NoDeletedWithId ==
    \A i \in 1..Len(pre) : pre[i].status = "deleted" => pre[i].id # call.task_id

\* C25: restore_task given a uuid that matches no deleted record, with or
\* without a task_id that matches none either, returns a not-found failure,
\* runs no command and changes no record: the most-recently-deleted heuristic
\* is kept for calls that give a task_id and no uuid.
C25_HeuristicOnlyWithoutUuid ==
    (/\ Returned("restore_task")
     /\ Truthy(call.uuid)
     /\ NoDeletedWithUuid
     /\ NoDeletedWithId)
    =>
    /\ ~ret.success
    /\ ret.error = "no deleted tasks"
    /\ cmds = <<>>
    /\ store = pre

\* C25 for a call that gives a uuid and no task_id.
C25_UuidAloneNotFound ==
    (/\ Returned("restore_task")
     /\ Truthy(call.uuid)
     /\ call.task_id = 0
     /\ NoDeletedWithUuid)
    =>
    /\ ~ret.success
    /\ ret.error = "no deleted tasks"
    /\ cmds = <<>>
    /\ store = pre


\* ---------------------------------------------------------------- C26

\* a is b with some entries left out, the others in b's order.
RECURSIVE IsSubseq(_, _)
IsSubseq(a, b) ==
    IF a = <<>> THEN TRUE
    ELSE IF b = <<>> THEN FALSE
    ELSE IF Head(a) = Head(b) THEN IsSubseq(Tail(a), Tail(b))
    ELSE IsSubseq(a, Tail(b))

TaskIdsOf(entries) == [k \in 1..Len(entries) |-> entries[k].task_id]

\* The position, in the store before the call, of the record with uuid u.
PosOf(u) == CHOOSE i \in 1..Len(pre) : pre[i].uuid = u

PreIds == [i \in 1..Len(pre) |-> pre[i].id]

\* The batch calls that select by id list, and those that select by filter.
SelectsByIds ==
    /\ phase = "returned" /\ ret.kind = "batch"
    /\ call.op \in ByIdsOps \/ (call.op = "batch_modify_tasks" /\ call.task_ids # <<>>)

SelectsByFilter ==
    /\ phase = "returned" /\ ret.kind = "batch"
    /\ call.op \in ByFilterOps \/ (call.op = "batch_modify_tasks" /\ call.task_ids = <<>>)

\* C26: within one batch call the records are processed in the order of the id
\* list, or of the filter's output (the store's order): the store is written
\* once per entry of results, in that order, the entries of results and those
\* of errors keep the relative order of their records in the input, and a
\* listed id met a second time sees the outcome of the first (a record is
\* completed, uncompleted, deleted, started or stopped at most once).
C26_InputOrder ==
    /\ SelectsByIds =>
         /\ IsSubseq(TaskIdsOf(ret.results), call.task_ids)
         /\ IsSubseq(TaskIdsOf(ret.errors), call.task_ids)
         /\ Len(writes) = Len(ret.results)
         /\ \A k \in 1..Len(writes) :
                IF call.op = "batch_uncomplete_by_ids"
                THEN \E e \in call.task_uuids :
                         e.key[2] = ret.results[k].task_id /\ e.uuid = writes[k]
                ELSE pre[PosOf(writes[k])].id = ret.results[k].task_id
         /\ call.op \in ByIdsOps =>
                \A j, k \in 1..Len(writes) : j # k => writes[j] # writes[k]
    /\ SelectsByFilter =>
         /\ Len(writes) = Len(ret.results)
         /\ \A j, k \in 1..Len(writes) : j < k => PosOf(writes[j]) < PosOf(writes[k])
         /\ \A k \in 1..Len(writes) :
                store[PosOf(writes[k])].id = ret.results[k].task_id
         /\ IsSubseq(TaskIdsOf(ret.errors), PreIds)

\* A batch_complete_by_ids call over <<2, 3, 1>> that wrote u2 and then u1 and
\* reported id 3 in errors.
C26_Witness ==
    /\ Returned("batch_complete_by_ids")
    /\ call.task_ids = <<2, 3, 1>>
    /\ writes = <<"u2", "u1">>
    /\ TaskIdsOf(ret.results) = <<2, 1>>
    /\ TaskIdsOf(ret.errors) = <<3>>

\* A by-filter call that wrote both records, in the store's order.
C26_WitnessByFilter ==
    /\ SelectsByFilter
    /\ writes = <<"u1", "u2">>


\* ---------------------------------------------------------------- C27

\* Both invocations have saved; Later is the one whose save came second.
BothSaved == \A n \in Invocations : mem[n].saved > 0

Later == CHOOSE n \in Invocations : mem[n].saved = 2

Earlier == CHOOSE n \in Invocations : mem[n].saved = 1

\* The fields invocation n sent to the store: those it changed from what it read.
Changed(n) == {f \in TaskFields : mem[n].task[f] # mem[n].orig[f]}

\* C27: two concurrent batch_modify_tasks invocations on one record take no
\* lock and merge nothing: once both have saved, every field the later save
\* changed holds the later invocation's value (its whole tag list included,
\* whatever the earlier save had added), a field only the earlier save changed
\* holds the earlier value, and every other field is as before.
C27_LastSaveWinsPerField ==
    BothSaved =>
        \A f \in TaskFields :
            store[1][f] = IF f \in Changed(Later) THEN mem[Later].task[f]
                          ELSE IF f \in Changed(Earlier) THEN mem[Earlier].task[f]
                          ELSE pre[1][f]

\* The two saves came in either order, whichever invocation read first.
C27_WitnessSecondReaderSavesFirst ==
    /\ BothSaved
    /\ Earlier = 2
    /\ mem[2].orig = pre[1]
    /\ mem[1].orig = pre[1]
    /\ Changed(1) # {} /\ Changed(2) # {}

\* The lost update: the earlier invocation added tag a and saved it, the later
\* one had read the record before that save and added tag b, and the record
\* ends without tag a although nobody asked to remove it.
C27_LostUpdate ==
    /\ BothSaved
    /\ mem[Earlier].upd.add_tags = {"a"}
    /\ mem[Later].upd.add_tags = {"b"}
    /\ "a" \in mem[Earlier].task.tags
    /\ "a" \notin mem[Later].orig.tags
    /\ "a" \notin store[1].tags
    /\ "b" \in store[1].tags


\* ---------------------------------------------------------------- C28

\* The entries of task_uuids given under a listed id whose uuid names a task
\* that was completed before the call.
CompletedUnderListedId ==
    {e \in call.task_uuids :
        /\ e.key[2] \in Range(call.task_ids)
        /\ \E i \in 1..Len(pre) : pre[i].uuid = e.uuid /\ pre[i].status = "completed"}

\* C28: in batch_uncomplete_by_ids a completed task whose uuid is supplied in
\* task_uuids under a listed id is found by that uuid, marked pending and
\* reported in results.
C28_UuidLookupFirst ==
    Returned("batch_uncomplete_by_ids") =>
        \A e \in CompletedUnderListedId :
            /\ store[PosOf(e.uuid)].status = "pending"
            /\ e.key[2] \in Range(TaskIdsOf(ret.results))

\* What the code does: the entry is used only when its key is the id's string;
\* an entry keyed by the integer id, as the declared Dict[int, str] has it, is
\* never looked up, the completed task stays completed and the id is reported
\* in errors.
C28_OnlyStringKeysLookedUp ==
    Returned("batch_uncomplete_by_ids") =>
        \A e \in CompletedUnderListedId :
            IF e.key[1] = "str"
            THEN /\ store[PosOf(e.uuid)].status = "pending"
                 /\ e.key[2] \in Range(TaskIdsOf(ret.results))
            ELSE /\ store[PosOf(e.uuid)] = pre[PosOf(e.uuid)]
                 /\ e.key[2] \in Range(TaskIdsOf(ret.errors))
                 /\ e.key[2] \notin Range(TaskIdsOf(ret.results))


\* ---------------------------------------------------------------- C29

\* The uuid of the record restore_task resolved in the store before the call.
ResolvedUuid == pre[RestoreTarget(pre, call.task_id, call.uuid, call.recent)].uuid

\* A restore_task call that resolved a record and so issued commands.
RestoreResolved ==
    /\ Returned("restore_task")
    /\ call.task_id # 0 \/ Truthy(call.uuid)
    /\ RestoreTarget(pre, call.task_id, call.uuid, call.recent) # 0

\* Command c addresses the record with uuid u: by that uuid, or by the numeric
\* id the record had.
Addresses(c, u) ==
    IF c.uuid # NONE THEN c.uuid = u ELSE c.id # 0 /\ c.id = IdOf(u)

\* C29: every store command restore_task issues addresses the record that
\* resolution selected, no other record is changed, and the task returned is
\* that record.
C29_CommandsAddressResolved ==
    RestoreResolved =>
        /\ \A k \in 1..Len(cmds) : Addresses(cmds[k], ResolvedUuid)
        /\ \A j \in 1..Len(store) : store[j] # pre[j] => pre[j].uuid = ResolvedUuid
        /\ ret.success => ret.task = ResolvedUuid

\* What the code does: the direct status-set and the re-read use the resolved
\* record's uuid; the undelete is addressed by str(task_id), whatever record
\* was resolved.
C29_OnlyStatusSetAddressesResolved ==
    RestoreResolved =>
        /\ Len(cmds) >= 1 /\ cmds[1] = ModifyCmd(ResolvedUuid, NewStatus(call.status))
        /\ Len(cmds) >= 2 => cmds[2] = UndeleteCmd(call.task_id)
        /\ ret.success => ret.task = ResolvedUuid
        /\ Len(cmds) = 1 =>
               \A j \in 1..Len(store) : store[j] # pre[j] => pre[j].uuid = ResolvedUuid


\* ---------------------------------------------------------------- C30

\* The record at position i ended in errors.
FailedBy(i) == \E k \in 1..Len(ret.errors) : ret.errors[k].task_id = pre[i].id

\* C30: in batch_modify_tasks a record that ends in errors is stored exactly
\* as it was before the call, whatever was assigned to it in memory before the
\* failing step; a record that ends in results has every requested change
\* (project, priority, tags, due) stored; each selected record ends in one of
\* the two lists and no other record is changed.
C30_FailedRecordUntouched ==
    (Returned("batch_modify_tasks") /\ ret.kind = "batch")
    =>
    \A i \in 1..Len(pre) :
        /\ FailedBy(i) => store[i] = pre[i]
        /\ (i \in ModifySelected /\ ModifiedBy(i)) =>
               store[i] = [pre[i] EXCEPT
                   !.project = AfterScalar(@, call.upd.project),
                   !.priority = AfterScalar(@, call.upd.priority),
                   !.tags = (@ \cup call.upd.add_tags) \ call.upd.remove_tags,
                   !.due = AfterDue(@, call.upd.due)]
        /\ i \in ModifySelected => (FailedBy(i) # ModifiedBy(i))
        /\ i \notin ModifySelected => store[i] = pre[i]

\* Project, tags and an unparsable due date asked of two records: both end in
\* errors with project and tags as before.
C30_Witness ==
    /\ Returned("batch_modify_tasks")
    /\ call.task_ids = <<2, 1>>
    /\ call.upd.project = "Y" /\ call.upd.add_tags = {"a"} /\ call.upd.due = "bad"
    /\ pre[1].project # "Y" /\ "a" \notin pre[1].tags
    /\ FailedBy(1) /\ FailedBy(2)
    /\ Len(ret.errors) = 2 /\ ret.results = <<>>
    /\ store = pre

\* The same request with a due date that parses: every change is stored.
C30_WitnessSucceeds ==
    /\ Returned("batch_modify_tasks")
    /\ call.task_ids = <<2, 1>>
    /\ call.upd.project = "Y" /\ call.upd.add_tags = {"a"} /\ call.upd.due = "D1"
    /\ pre[1].project # "Y" /\ "a" \notin pre[1].tags /\ pre[1].due # 1
    /\ ModifiedBy(1) /\ ModifiedBy(2)
    /\ store[1].project = "Y" /\ "a" \in store[1].tags /\ store[1].due = 1
    /\ store[2].project = "Y" /\ "a" \in store[2].tags /\ store[2].due = 1

====
